---------------------------- MODULE Spec2Model ----------------------------
(***************************************************************************)
(* Window capture, crop and OCR session of app/main.py.                    *)
(*                                                                         *)
(* The model has two layers:                                               *)
(*   - the Flask handlers /api/capture, /api/clear_capture and /api/ocr    *)
(*     acting on the module-level AppState `state`, with the capture       *)
(*     engine (_capture_selected_window, _refresh_window_bounds,           *)
(*     _capture_hwnd) computed call by call from the answers the OS and    *)
(*     the optional libraries give during one request;                     *)
(*   - the browser script (crop selector and runOcr) that drives them.     *)
(* Optional Python values are tagged records, None being [tag |-> "None"]. *)
(***************************************************************************)
EXTENDS Integers, Sequences, FiniteSets, TLC

\* ------------------------------------------------------------------ bounds

\* Number of successful captures a behaviour may contain (image identities).
MaxCaptures == 2

\* Number of times a behaviour of the browser session enters selection mode.
MaxSelections == 1

\* Number of requests the server handles at the same time.
MaxWorkers == 2

\* Times selection mode is entered in the model of the crop selector alone.
MaxArmings == 2

\* Most prompts the store holds.
MaxPrompts == 3

\* const maxQueueItems of the script (line 1205).
maxQueueItems == 10

\* ------------------------------------------------------------ basic values

None == [tag |-> "None"]

\* The answer of a library call that raises instead of returning.
Raises == [tag |-> "raise"]

Max(a, b) == IF a >= b THEN a ELSE b

Min(a, b) == IF a <= b THEN a ELSE b

\* SelectedWindow.region: (left, top, width, height).
Region(sel) == [left |-> sel.left, top |-> sel.top, width |-> sel.width, height |-> sel.height]

\* Rectangles win32gui.GetWindowRect may answer: (left, top, right, bottom).
\* The second has right = left: a window reporting zero width.
WindowRects ==
    { [left |-> 4, top |-> 0, right |-> 28, bottom |-> 12],
      [left |-> 4, top |-> 0, right |-> 4, bottom |-> 12] }

\* What pygetwindow reported when the windows were listed: left, top, width, height.
ListedRects ==
    { [left |-> 0, top |-> 0, width |-> 12, height |-> 12],
      [left |-> 4, top |-> 0, width |-> 0, height |-> 12] }

\* ---------------------------------------------------------- _capture_hwnd

\* The calls of the try body, in program order (lines 525-536).
BodyCalls ==
    << "CreateDCFromHandle", "CreateCompatibleDC", "CreateBitmap",
       "CreateCompatibleBitmap", "SelectObject", "PrintWindow", "GetBitmapBits" >>

\* PrintWindow is the sixth call of the body.
PrintWindowStep == 6

\* Number of body calls that completed: all before the one that raises; the
\* body returns right after PrintWindow when its result is not 1.
BodyDone(env) ==
    IF env.failAt > 0 THEN env.failAt - 1
    ELSE IF env.printResult # 1 THEN PrintWindowStep
    ELSE Len(BodyCalls)

\* The finally block (lines 547-552) after `done` body calls completed.
\* window_dc is bound once call 1 returned, mem_dc once call 2 returned,
\* bitmap is an object once call 3 returned and owns a GDI bitmap once call 4
\* returned.  A name that was never bound raises UnboundLocalError and the
\* rest of the block is skipped.  Each step takes the block so far: the calls
\* made, the resources released, whether it raised, and `stray` when a
\* release was attempted on a resource never acquired.

\* if bitmap: win32gui.DeleteObject(bitmap.GetHandle())
DeleteBitmap(done, env) ==
    IF done < 3
    THEN [calls |-> << >>, released |-> << >>, raised |-> FALSE, stray |-> FALSE]
    ELSE IF done >= 4
    THEN [calls |-> << "DeleteObject" >>, released |-> << "bitmap" >>,
          raised |-> FALSE, stray |-> FALSE]
    ELSE [calls |-> << "DeleteObject" >>, released |-> << >>,
          raised |-> env.nullDelete = "raise", stray |-> TRUE]

\* mem_dc.DeleteDC()
DeleteMemDC(block, done) ==
    IF block.raised THEN block
    ELSE IF done >= 2
    THEN [block EXCEPT !.calls = Append(@, "mem_dc.DeleteDC"), !.released = Append(@, "mem_dc")]
    ELSE [block EXCEPT !.raised = TRUE]

\* window_dc.DeleteDC()
DeleteWindowDC(block, done) ==
    IF block.raised THEN block
    ELSE IF done >= 1
    THEN [block EXCEPT !.calls = Append(@, "window_dc.DeleteDC"),
                       !.released = Append(@, "window_dc")]
    ELSE [block EXCEPT !.raised = TRUE]

\* win32gui.ReleaseDC(hwnd, hwnd_dc)
ReleaseDC(block) ==
    IF block.raised THEN block
    ELSE [block EXCEPT !.calls = Append(@, "ReleaseDC"), !.released = Append(@, "hwnd_dc")]

FinallyBlock(done, env) ==
    ReleaseDC(DeleteWindowDC(DeleteMemDC(DeleteBitmap(done, env), done), done))

\* Resources the body acquired after `done` calls completed, in order of
\* acquisition, behind the window DC of GetWindowDC.
Acquired(done) ==
    << "hwnd_dc" >>
      \o (IF done >= 1 THEN << "window_dc" >> ELSE << >>)
      \o (IF done >= 2 THEN << "mem_dc" >> ELSE << >>)
      \o (IF done >= 4 THEN << "bitmap" >> ELSE << >>)

\* An image: `id` tells captures apart, `via` the path that produced it,
\* `rect` the screen rectangle it shows.
NewImage(id, via, left, top, width, height) ==
    [tag |-> "Image", id |-> id, via |-> via, w |-> width, h |-> height,
     rect |-> [left |-> left, top |-> top, width |-> width, height |-> height]]

\* What a run of _capture_hwnd did: the library calls in order, the resources
\* acquired and released in order, `stray` when a release was attempted on a
\* resource never acquired, the results of the PrintWindow calls that
\* returned, and the body call that raised ("" when none did).
NoTrace ==
    [calls |-> << >>, acquired |-> << >>, released |-> << >>, stray |-> FALSE,
     prints |-> << >>, raisedAt |-> ""]

\* Number of body calls attempted: the completed ones and the one that raised.
BodyAttempted(env) == IF env.failAt > 0 THEN env.failAt ELSE BodyDone(env)

\* The try statement of _capture_hwnd (lines 524-552) for a window of the
\* given size: `fin` is what its finally block did.
TryBody(env, id, width, height, fin) ==
    [result |-> IF fin.raised \/ env.failAt > 0 THEN None
                ELSE IF env.printResult # 1 THEN None
                ELSE NewImage(id, "PrintWindow", env.hwndRect.left, env.hwndRect.top, width, height),
     raised |-> fin.raised \/ env.failAt > 0,
     calls |-> << "GetWindowRect", "GetWindowDC" >>
                 \o SubSeq(BodyCalls, 1, BodyAttempted(env)) \o fin.calls,
     acquired |-> Acquired(BodyDone(env)),
     released |-> fin.released,
     stray |-> fin.stray,
     prints |-> IF BodyDone(env) >= PrintWindowStep THEN << env.printResult >> ELSE << >>,
     raisedAt |-> IF env.failAt > 0 THEN BodyCalls[env.failAt] ELSE ""]

\* Lines 513-522 and the try statement, once GetWindowRect answered.
CaptureSized(env, id, width, height) ==
    IF width = 0 \/ height = 0
    THEN [result |-> None, raised |-> FALSE] @@ [NoTrace EXCEPT !.calls = << "GetWindowRect" >>]
    ELSE IF ~env.windowDC
    THEN [result |-> None, raised |-> FALSE]
           @@ [NoTrace EXCEPT !.calls = << "GetWindowRect", "GetWindowDC" >>]
    ELSE TryBody(env, id, width, height, FinallyBlock(BodyDone(env), env))

\* _capture_hwnd(hwnd): result is an image or None; `raised` when it raises.
CaptureHwnd(env, id) ==
    IF ~env.pywin32 THEN [result |-> None, raised |-> FALSE] @@ NoTrace
    ELSE IF env.hwndRect = Raises
    THEN [result |-> None, raised |-> FALSE] @@ [NoTrace EXCEPT !.calls = << "GetWindowRect" >>]
    ELSE CaptureSized(env, id, Max(0, env.hwndRect.right - env.hwndRect.left),
                      Max(0, env.hwndRect.bottom - env.hwndRect.top))

\* ------------------------------------------------ _refresh_window_bounds

\* The selection after _refresh_window_bounds: the listed rectangle is
\* replaced only when GetWindowRect answers a rectangle of positive size.
RefreshWindowBounds(selection, env) ==
    IF selection.hwnd = 0 \/ ~env.pywin32 THEN selection
    ELSE IF env.refreshRect = Raises THEN selection
    ELSE
    LET width == Max(0, env.refreshRect.right - env.refreshRect.left)
        height == Max(0, env.refreshRect.bottom - env.refreshRect.top)
    IN  IF width # 0 /\ height # 0
        THEN [selection EXCEPT !.left = env.refreshRect.left, !.top = env.refreshRect.top,
                               !.width = width, !.height = height]
        ELSE selection

\* Whether _refresh_window_bounds queried the OS at all.
RefreshQueried(selection, env) == selection.hwnd # 0 /\ env.pywin32

\* ---------------------------------------------- _capture_selected_window

\* pyautogui.screenshot(region=...): an image of that region, or it raises.
Screenshot(region, env, id) ==
    IF env.shot = "raise" THEN Raises
    ELSE NewImage(id, "screenshot", region.left, region.top, region.width, region.height)

\* A primary path whose answer is returned whenever it did not raise.
PrimaryReturnsUnlessRaised(primary) == ~primary.raised

\* Whether the primary path hands back its image (line 467: if win32_image).
PrimaryReturns(primary) == ~primary.raised /\ primary.result # None

\* Lines 463-478, after _refresh_window_bounds left the selection `sel` and
\* the primary path, when tried, answered `primary`.
\* outcome "image": `image` is returned; outcome "raise": `error` is str(exc).
AfterPrimary(selection, env, id, sel, primary) ==
    LET base == [selection |-> sel, listed |-> selection, primaryTried |-> sel.hwnd # 0,
                 refreshed |-> RefreshQueried(selection, env),
                 refreshAnswer |-> IF RefreshQueried(selection, env) THEN env.refreshRect ELSE None,
                 primary |-> primary, pyautogui |-> env.pyautogui, shot |-> env.shot]
        before == (IF RefreshQueried(selection, env) THEN << "GetWindowRect" >> ELSE << >>)
                    \o primary.calls
    IN  IF sel.hwnd # 0 /\ PrimaryReturns(primary)
        THEN [outcome |-> "image", image |-> primary.result, error |-> "",
              fallbackTried |-> FALSE, calls |-> before] @@ base
        ELSE IF ~env.pyautogui
        THEN [outcome |-> "raise", image |-> None,
              error |-> "Install pyautogui to capture windows without Win32 support.",
              fallbackTried |-> FALSE, calls |-> before] @@ base
        ELSE IF Screenshot(Region(sel), env, id) = Raises
        THEN [outcome |-> "raise", image |-> None, error |-> "screenshot failed",
              fallbackTried |-> TRUE, calls |-> Append(before, "screenshot")] @@ base
        ELSE [outcome |-> "image", image |-> Screenshot(Region(sel), env, id), error |-> "",
              fallbackTried |-> TRUE, calls |-> Append(before, "screenshot")] @@ base

\* Lines 461-465: the primary path is tried when the selection has a handle.
TryPrimary(selection, env, id, sel) ==
    AfterPrimary(selection, env, id, sel,
                 IF sel.hwnd # 0 THEN CaptureHwnd(env, id)
                 ELSE [result |-> None, raised |-> FALSE] @@ NoTrace)

\* _capture_selected_window(selection) for a selection that is not None.
CaptureSelectedWindow(selection, env, id) ==
    IF ~env.pillow
    THEN [outcome |-> "raise", image |-> None, error |-> "Install Pillow to capture windows.",
          selection |-> selection, listed |-> selection, primaryTried |-> FALSE,
          fallbackTried |-> FALSE, refreshed |-> FALSE, refreshAnswer |-> None,
          primary |-> [result |-> None, raised |-> FALSE] @@ NoTrace,
          pyautogui |-> env.pyautogui, shot |-> env.shot, calls |-> << >>]
    ELSE TryPrimary(selection, env, id, RefreshWindowBounds(selection, env))

\* ---------------------------------------------------- _parse_crop_request

\* A crop rectangle (l, t, r, b) of the source.
Box(l, t, r, b) == [tag |-> "Box", left |-> l, top |-> t, right |-> r, bottom |-> b]

\* The crop member of the request body, as _parse_crop_request sees it:
\*   None     no crop / crop_box / cropBox member, or a falsy one
\*   notdict  a member that is not an object
\*   ltrb     an object with left, top, right, bottom
\*   xywh     an object with x, y, width, height (and not all of ltrb)
\*   other    a non-empty object with neither set of keys
\* `ints` is FALSE when int() raises on one of the four values.
CropLTRB(l, t, r, b, ints) ==
    [tag |-> "ltrb", a |-> l, b |-> t, c |-> r, d |-> b, ints |-> ints]

CropXYWH(x, y, width, height, ints) ==
    [tag |-> "xywh", a |-> x, b |-> y, c |-> width, d |-> height, ints |-> ints]

\* The corners (l, t, r, b) a well-formed crop member asks for, before they
\* are ordered and clamped.
CropCorners(crop) ==
    IF crop.tag = "ltrb" THEN Box(crop.a, crop.b, crop.c, crop.d)
    ELSE Box(crop.a, crop.b, crop.a + crop.c, crop.b + crop.d)

\* Ordering and rejecting as the source does, without clamping to the image.
NormalizeCropUnclamped(l0, t0, r0, b0, image) ==
    LET l == IF r0 < l0 THEN r0 ELSE l0
        r == IF r0 < l0 THEN l0 ELSE r0
        t == IF b0 < t0 THEN b0 ELSE t0
        b == IF b0 < t0 THEN t0 ELSE b0
    IN  IF r - l <= 0 \/ b - t <= 0
        THEN [box |-> None, error |-> "Crop area is empty after normalization."]
        ELSE [box |-> Box(l, t, r, b), error |-> ""]

\* Lines 604-619: order the corners, clamp them to the image, reject an
\* empty rectangle.
NormalizeCrop(l0, t0, r0, b0, image) ==
    LET l1 == IF r0 < l0 THEN r0 ELSE l0
        r1 == IF r0 < l0 THEN l0 ELSE r0
        t1 == IF b0 < t0 THEN b0 ELSE t0
        b1 == IF b0 < t0 THEN t0 ELSE b0
        l == Max(0, Min(image.w, l1))
        r == Max(0, Min(image.w, r1))
        t == Max(0, Min(image.h, t1))
        b == Max(0, Min(image.h, b1))
    IN  IF r - l <= 0 \/ b - t <= 0
        THEN [box |-> None, error |-> "Crop area is empty after normalization."]
        ELSE [box |-> Box(l, t, r, b), error |-> ""]

\* _parse_crop_request(data, image): (crop box or None, error or None), the
\* error None being "".
ParseCropRequest(crop, image) ==
    IF crop.tag = "None" THEN [box |-> None, error |-> ""]
    ELSE IF crop.tag = "notdict" THEN [box |-> None, error |-> "Crop must be an object."]
    ELSE IF crop.tag = "other"
    THEN [box |-> None,
          error |-> "Crop object must contain either left/top/right/bottom or x/y/width/height."]
    ELSE IF ~crop.ints THEN [box |-> None, error |-> "Invalid crop values"]
    ELSE LET c == CropCorners(crop)
         IN  NormalizeCrop(c.left, c.top, c.right, c.bottom, image)

\* What kind of rectangle a request asked for, kept with the response:
\* `inverted` when right < left or bottom < top, `outside` when a corner lies
\* outside [0, w] x [0, h] of the image.
CropShape(crop, image) ==
    IF crop.tag \in {"ltrb", "xywh"} /\ crop.ints
    THEN LET c == CropCorners(crop)
         IN  [tag |-> "rect",
              inverted |-> c.right < c.left \/ c.bottom < c.top,
              outside |-> \/ c.left < 0 \/ c.right < 0 \/ c.top < 0 \/ c.bottom < 0
                          \/ c.left > image.w \/ c.right > image.w
                          \/ c.top > image.h \/ c.bottom > image.h]
    ELSE [tag |-> crop.tag, inverted |-> FALSE, outside |-> FALSE]

\* image.crop(box): a new image holding that rectangle of `image`.
CropImage(image, box) ==
    [tag |-> "Cropped", of |-> image, box |-> box,
     w |-> box.right - box.left, h |-> box.bottom - box.top]

\* ------------------------------------------------------------- AppState

\* state = AppState() (line 105).
InitialState == [selected_window |-> None, captured_image |-> None, crop_box |-> None]

\* What one request did, beside changing `state`: the route, the HTTP status
\* and error, and what passed through the capture engine or to the OCR engine.
NoCapture ==
    [outcome |-> "none", image |-> None, error |-> "", selection |-> None, listed |-> None,
     primaryTried |-> FALSE, fallbackTried |-> FALSE, refreshed |-> FALSE,
     refreshAnswer |-> None, primary |-> [result |-> None, raised |-> FALSE] @@ NoTrace,
     pyautogui |-> FALSE, shot |-> "ok", calls |-> << >>]

\* `hadCrop`: state.crop_box was not None when the request arrived.  `page`:
\* the crop selector of the page that sent the request, None for a request
\* that did not come from the page's script.  `asked`: the crop member of an
\* /api/ocr request as it was sent, and what the request met.
Response(route, code, error, st) ==
    [route |-> route, code |-> code, error |-> error, cap |-> NoCapture,
     ocrInput |-> None, cropOut |-> None, hadCrop |-> st.crop_box # None,
     crop |-> [tag |-> "None", inverted |-> FALSE, outside |-> FALSE], page |-> None,
     asked |-> None]

\* ------------------------------------------------------------ /api/capture

\* The windows _list_windows may find under the requested title.
ListedWindows ==
    { [title |-> "w", left |-> r.left, top |-> r.top, width |-> r.width,
       height |-> r.height, hwnd |-> h] : r \in ListedRects, h \in {0, 1} }

\* A capture that keeps the crop box of the image it replaces.
StoreCaptureKeepingCrop(st, match, screenshot) ==
    [st EXCEPT !.selected_window = match, !.captured_image = screenshot]

\* Lines 705-707: the session after a capture that produced `screenshot`.
StoreCapture(st, match, screenshot) ==
    [st EXCEPT !.selected_window = match, !.captured_image = screenshot, !.crop_box = None]

\* An api_capture that drops the stored image and crop box when the capture
\* of the selected window fails.
CaptureAnswerDroppingImage(st, cap) ==
    IF cap.outcome = "raise" \/ cap.image = None
    THEN [state |-> [st EXCEPT !.captured_image = None, !.crop_box = None],
          resp |-> [Response("capture", 500, "Capture failed.", st) EXCEPT !.cap = cap]]
    ELSE [state |-> StoreCapture(st, cap.selection, cap.image),
          resp |-> [Response("capture", 200, "", st) EXCEPT !.cap = cap]]

\* Lines 698-708: the new state and the response once
\* _capture_selected_window answered `cap`.
CaptureAnswer(st, cap) ==
    IF cap.outcome = "raise"
    THEN [state |-> st,
          resp |-> [Response("capture", 500, cap.error, st) EXCEPT !.cap = cap]]
    ELSE IF cap.image = None
    THEN [state |-> st,
          resp |-> [Response("capture", 500, "Capture failed.", st) EXCEPT !.cap = cap]]
    ELSE [state |-> StoreCapture(st, cap.selection, cap.image),
          resp |-> [Response("capture", 200, "", st) EXCEPT !.cap = cap]]

\* api_capture: the new state and the response.
ApiCaptureHandler(st, title, env, id) ==
    IF ~env.pillow
    THEN [state |-> st,
          resp |-> Response("capture", 400, "Pillow is not installed.", st)]
    ELSE IF title = ""
    THEN [state |-> st, resp |-> Response("capture", 400, "No window title provided.", st)]
    ELSE IF env.listed = None \/ env.listed.title # title
    THEN [state |-> st,
          resp |-> Response("capture", 404, "Window not found. Refresh the list and try again.", st)]
    ELSE CaptureAnswer(st, CaptureSelectedWindow(env.listed, env, id))

\* ------------------------------------------------------ /api/clear_capture

ApiClearCaptureHandler(st) ==
    [state |-> [st EXCEPT !.captured_image = None, !.crop_box = None],
     resp |-> Response("clear_capture", 200, "", st)]

\* ------------------------------------------------------- /api/ai_response

\* api_ai_response (lines 820-888): more than 10 queued items are refused;
\* env.ai tells whether a provider client is configured and whether its call
\* returns or raises.  The session is not touched.
ApiAiResponseHandler(st, queue, env) ==
    IF Len(queue) > 10
    THEN [state |-> st, resp |-> Response("ai_response", 400, "Queue limit is 10 items per request.", st)]
    ELSE IF env.ai = "noclient"
    THEN [state |-> st, resp |-> Response("ai_response", 400, "no client", st)]
    ELSE IF env.ai = "raise"
    THEN [state |-> st, resp |-> Response("ai_response", 500, "provider failed", st)]
    ELSE [state |-> st, resp |-> Response("ai_response", 200, "", st)]

\* ---------------------------------------------------------------- /api/ocr

\* An api_ocr that keeps the cropped image as the capture.
StoreCropAndImage(st, crop_box) ==
    IF crop_box = None THEN [st EXCEPT !.crop_box = None]
    ELSE [st EXCEPT !.crop_box = crop_box, !.captured_image = CropImage(st.captured_image, crop_box)]

\* An api_ocr without the else branch of lines 736-737: a request without a
\* crop leaves the stored crop box as it was.
StoreCropUnlessNone(st, crop_box) ==
    IF crop_box = None THEN st ELSE [st EXCEPT !.crop_box = crop_box]

\* Lines 733-737: the crop box the request leaves in the session.
StoreCrop(st, crop_box) == [st EXCEPT !.crop_box = crop_box]

\* An api_ocr that crops what the stored crop box left of the capture.
ImageForOcrWithinStored(st, box) ==
    IF box = None THEN st.captured_image
    ELSE IF st.crop_box = None THEN CropImage(st.captured_image, box)
    ELSE CropImage(CropImage(st.captured_image, st.crop_box), box)

\* Line 734: the image handed to _run_ocr.
ImageForOcr(st, box) == IF box # None THEN CropImage(st.captured_image, box) ELSE st.captured_image

\* An api_ocr that forgets the stored crop box when it rejects the payload.
OcrAnswerForgettingCrop(st, env, parsed, shape) ==
    IF parsed.error # ""
    THEN [state |-> [st EXCEPT !.crop_box = None],
          resp |-> [Response("ocr", 400, parsed.error, st) EXCEPT !.crop = shape]]
    ELSE [state |-> StoreCrop(st, parsed.box),
          resp |-> [Response("ocr", IF env.ocr = "raise" THEN 500 ELSE 200,
                             IF env.ocr = "raise" THEN "ocr failed" ELSE "", st)
                      EXCEPT !.ocrInput = ImageForOcr(st, parsed.box),
                             !.cropOut = IF env.ocr = "raise" THEN None ELSE parsed.box,
                             !.crop = shape]]

\* Lines 730-755: the new state and the response once _parse_crop_request
\* answered `parsed`; `shape` tells what the request asked for.
OcrAnswer(st, env, parsed, shape) ==
    IF parsed.error # ""
    THEN [state |-> st,
          resp |-> [Response("ocr", 400, parsed.error, st) EXCEPT !.crop = shape]]
    ELSE IF env.ocr = "raise"
    THEN [state |-> StoreCrop(st, parsed.box),
          resp |-> [Response("ocr", 500, "ocr failed", st)
                      EXCEPT !.ocrInput = ImageForOcr(st, parsed.box), !.crop = shape]]
    ELSE [state |-> StoreCrop(st, parsed.box),
          resp |-> [Response("ocr", 200, "", st)
                      EXCEPT !.ocrInput = ImageForOcr(st, parsed.box),
                             !.cropOut = parsed.box, !.crop = shape]]

\* api_ocr: env.pytesseract tells whether pytesseract is installed, env.ocr
\* whether _run_ocr / _image_to_data_url return or raise.
ApiOcrHandler(st, crop, env) ==
    IF st.captured_image = None
    THEN [state |-> st, resp |-> Response("ocr", 400, "Take a capture first.", st)]
    ELSE IF ~env.pytesseract
    THEN [state |-> st, resp |-> Response("ocr", 400, "pytesseract is not installed.", st)]
    ELSE OcrAnswer(st, env, ParseCropRequest(crop, st.captured_image),
                   CropShape(crop, st.captured_image))

\* ------------------------------------------------------- request inputs

\* Coordinates a crop payload may carry: below, inside, on and beyond the
\* edges of the 12 and 24 pixel wide, 12 pixel high images of the model.
XCoords == {-3, 0, 2, 12, 30}

YCoords == {-3, 5, 15}

CropPayloads ==
    { None, [tag |-> "notdict"], [tag |-> "other"], CropLTRB(0, 0, 0, 0, FALSE) }
      \cup { CropLTRB(l, t, r, b, TRUE) : l \in XCoords, r \in XCoords, t \in YCoords, b \in YCoords }
      \cup { CropXYWH(x, y, w, h, TRUE) : x \in {0, 2}, w \in {-3, 2, 12}, y \in {5}, h \in {-3, 15} }

\* Crop members of the /api/ocr requests that are sent again: none, not an
\* object, rectangles inside the image, inverted, reaching beyond it and
\* empty once clamped, in both forms.
RepeatPayloads ==
    { None, [tag |-> "notdict"],
      CropLTRB(0, 0, 12, 12, TRUE), CropLTRB(2, 5, 12, 15, TRUE), CropLTRB(12, 15, 2, 5, TRUE),
      CropLTRB(-3, -3, 30, 15, TRUE), CropLTRB(12, 5, 30, 15, TRUE),
      CropXYWH(2, 5, 2, 15, TRUE), CropXYWH(2, 5, -3, 15, TRUE) }

\* pytesseract installed or not; when it is, _run_ocr returns or raises.
OcrEnvs ==
    { [pytesseract |-> TRUE, ocr |-> "ok"], [pytesseract |-> TRUE, ocr |-> "raise"],
      [pytesseract |-> FALSE, ocr |-> "ok"] }

\* The environments of the model of the queue: _run_ocr may also find no
\* text in the image.
QueueOcrEnvs == OcrEnvs \cup { [pytesseract |-> TRUE, ocr |-> "blank"] }

\* The text _run_ocr returns (line 569), stripped: empty when the image holds
\* no text.
OcrText(env) == IF env.ocr = "blank" THEN "" ELSE "text"

\* The provider of /api/ai_response: answering, not configured, or raising.
AiEnvs == { [ai |-> "ok"], [ai |-> "noclient"], [ai |-> "raise"] }

\* The answers of the environment during one /api/capture request.  Answers
\* the request never asks for are pinned to one value.
DefaultCaptureEnv ==
    [pillow |-> TRUE, pyautogui |-> TRUE, pywin32 |-> TRUE, listed |-> None,
     refreshRect |-> Raises, hwndRect |-> Raises, windowDC |-> TRUE, failAt |-> 0,
     printResult |-> 1, nullDelete |-> "ok", shot |-> "ok"]

PositiveSize(rect) == rect # Raises /\ rect.right - rect.left > 0 /\ rect.bottom - rect.top > 0

\* The environments a request can tell apart, the body call that raises
\* drawn from failAts (0: none raises) and the answer of GetWindowDC from
\* windowDCs.
CaptureEnvsWith(failAts, windowDCs) ==
    LET d == DefaultCaptureEnv
        rects == WindowRects \cup {Raises}
        \* the region grab: missing, succeeding or raising
        fallbacks(e) ==
            { [e EXCEPT !.pyautogui = f[1], !.shot = f[2]] :
                f \in { << TRUE, "ok" >>, << TRUE, "raise" >>, << FALSE, "ok" >> } }
        plain == { [d EXCEPT !.listed = w] : w \in { v \in ListedWindows : v.hwnd = 0 } }
        native == { [d EXCEPT !.listed = w] : w \in { v \in ListedWindows : v.hwnd # 0 } }
        noWin32 == { [e EXCEPT !.pywin32 = FALSE] : e \in native }
        queried == { [e EXCEPT !.refreshRect = r, !.hwndRect = h] :
                       e \in native, r \in rects, h \in rects }
        noSize == { e \in queried : ~PositiveSize(e.hwndRect) }
        sized == queried \ noSize
        noDC == IF FALSE \in windowDCs THEN { [e EXCEPT !.windowDC = FALSE] : e \in sized }
                ELSE {}
        withDC == IF TRUE \in windowDCs THEN sized ELSE {}
        raising == { [e EXCEPT !.failAt = k] : e \in withDC, k \in failAts \ {0} }
        strayRaising == { [e EXCEPT !.nullDelete = "raise"] : e \in { x \in raising : x.failAt = 4 } }
        refused == IF 0 \in failAts THEN { [e EXCEPT !.printResult = 0] : e \in withDC } ELSE {}
        printed == IF 0 \in failAts THEN withDC ELSE {}
        falling == plain \cup noWin32 \cup noSize \cup noDC \cup raising
                     \cup strayRaising \cup refused
    IN  {d, [d EXCEPT !.pillow = FALSE]} \cup printed \cup UNION { fallbacks(e) : e \in falling }

\* Every environment: any body call of _capture_hwnd may raise.
CaptureEnvs == CaptureEnvsWith(0..Len(BodyCalls), BOOLEAN)

\* The environments in which no OS call raises after the window DC was
\* obtained.
SessionCaptureEnvs == CaptureEnvsWith({0}, {TRUE})

\* --------------------------------------------------- browser: crop selector

\* Math.round(num / den) for num >= 0, den > 0: halves round up.  The scale
\* factors of the model (1, 3/2) are exact in binary floating point, so the
\* script computes the same integers.
RoundHalfUp(num, den) == (2 * num + den) \div (2 * den)

Abs(a) == IF a < 0 THEN -a ELSE a

\* Displayed sizes of the preview: the natural size scaled by num/den.
Zooms == { << 1, 1 >>, << 2, 3 >> }

\* Sizes of the captured windows and zooms of their previews in the model of
\* the coordinate mapping.  The style sheet never enlarges the preview
\* (lines 982-984).
MappingSizes == { << 12, 12 >>, << 24, 12 >>, << 1000, 800 >> }

MappingZooms == { << 1, 1 >>, << 2, 3 >>, << 1, 2 >> }

\* img.getBoundingClientRect() of an element showing `image` at zoom z.
DisplayRect(image, z) ==
    [width |-> (image.w * z[1]) \div z[2], height |-> (image.h * z[1]) \div z[2]]

\* Pointer positions relative to the top-left corner of the displayed image
\* (event.clientX - rect.left, event.clientY - rect.top): left of, inside
\* and right of it.
PointerXs == {-5, 1, 40}

PointerYs == {2, 40}

PointerIds == {1, 2}

\* pointFromEvent (lines 1396-1403).
PointFromEvent(ev, rect) ==
    [x |-> Max(0, Min(rect.width, ev.x)), y |-> Max(0, Min(rect.height, ev.y)), rect |-> rect]

\* The box spanned by the first corner and a point, in displayed pixels.
SpannedBox(first, point) ==
    [x |-> Min(first.x, point.x), y |-> Min(first.y, point.y),
     width |-> Abs(point.x - first.x), height |-> Abs(point.y - first.y)]

\* A commitCrop that scales by rect / natural instead of natural / rect.
CommitCropBoxInverted(first, endPoint, nW, nH) ==
    LET box == SpannedBox(first, endPoint)
        rect == endPoint.rect
    IN  [tag |-> "Crop",
         x |-> RoundHalfUp(box.x * rect.width, nW),
         y |-> RoundHalfUp(box.y * rect.height, nH),
         width |-> RoundHalfUp(box.width * rect.width, nW),
         height |-> RoundHalfUp(box.height * rect.height, nH),
         display |-> box]

\* A commitCrop that stores the box in displayed pixels.
CommitCropBoxUnscaled(first, endPoint, nW, nH) ==
    LET box == SpannedBox(first, endPoint)
    IN  [tag |-> "Crop", x |-> box.x, y |-> box.y, width |-> box.width,
         height |-> box.height, display |-> box]

\* The cropBox commitCrop stores (lines 1408-1420).
CommitCropBox(first, endPoint, nW, nH) ==
    LET box == SpannedBox(first, endPoint)
        rect == endPoint.rect
    IN  [tag |-> "Crop",
         x |-> RoundHalfUp(box.x * nW, rect.width),
         y |-> RoundHalfUp(box.y * nH, rect.height),
         width |-> RoundHalfUp(box.width * nW, rect.width),
         height |-> RoundHalfUp(box.height * nH, rect.height),
         display |-> box]

\* A runOcr that sends the box as displayed in the scaled preview.
OcrPayloadFromDisplay(box) ==
    IF box = None THEN None
    ELSE CropLTRB(box.display.x, box.display.y, box.display.x + box.display.width,
                  box.display.y + box.display.height, TRUE)

\* The payload runOcr builds (lines 1516-1525).
OcrPayload(box) ==
    IF box = None THEN None
    ELSE CropLTRB(box.x, box.y, box.x + box.width, box.y + box.height, TRUE)

\* What reading the `src` property of #captureImage may answer when the
\* attribute holds `attr`.  The attribute is always present (the template
\* writes src="" at line 1098, clearAfterResult assigns '' at line 1824); the
\* property reflects it as a URL, so for the empty attribute a browser
\* answers the address of the document ("/") where it resolves the empty
\* string against it, and "" where it does not.
SrcRead(attr) == IF attr = "" THEN {"", "/"} ELSE {attr}

\* What capture() meets in the model of the browser session: a window
\* without a native handle grabbed from the screen, a window captured
\* through PrintWindow, and a capture that fails for want of a backend.
ClientCaptureEnvs ==
    LET met(e) ==
          /\ e.pillow /\ e.listed # None /\ e.listed.width > 0 /\ e.shot = "ok"
          /\ \/ e.listed.hwnd = 0
             \/ e.pywin32 /\ e.pyautogui /\ e.refreshRect = e.hwndRect
                  /\ PositiveSize(e.hwndRect) /\ e.printResult = 1
    IN  { x : x \in { e \in SessionCaptureEnvs : met(e) } }

\* What capture() meets in the model of the crop selector alone: the
\* windows without a native handle, grabbed from the screen or not captured
\* for want of a backend.
SelectorCaptureEnvs == { x : x \in { e \in ClientCaptureEnvs : e.listed.hwnd = 0 } }

\* ----------------------------------------------------------- prompt store

\* Texts are sequences of characters: a letter, a blank, the separator of
\* the prompt file (";") and a line break.

\* str.strip(): leading and trailing blanks and line breaks removed.
RECURSIVE Strip(_)
Strip(s) ==
    IF s = << >> THEN s
    ELSE IF Head(s) \in {" ", "\n"} THEN Strip(Tail(s))
    ELSE IF s[Len(s)] \in {" ", "\n"} THEN Strip(SubSeq(s, 1, Len(s) - 1))
    ELSE s

\* str.split(sep): the segments between the occurrences of sep.
RECURSIVE Split(_, _)
Split(s, sep) ==
    IF \A i \in DOMAIN s : s[i] # sep THEN << s >>
    ELSE LET i == CHOOSE k \in DOMAIN s : s[k] = sep /\ \A j \in 1..(k - 1) : s[j] # sep
         IN  << SubSeq(s, 1, i - 1) >> \o Split(SubSeq(s, i + 1, Len(s)), sep)

\* str.splitlines(): the lines, without an empty one after a final line break.
SplitLines(s) ==
    LET parts == Split(s, "\n")
    IN  IF parts[Len(parts)] = << >> THEN SubSeq(parts, 1, Len(parts) - 1) ELSE parts

\* sep.join(texts)
RECURSIVE Join(_, _)
Join(texts, sep) ==
    IF texts = << >> THEN << >>
    ELSE IF Len(texts) = 1 THEN texts[1]
    ELSE texts[1] \o << sep >> \o Join(Tail(texts), sep)

\* _write_prompt_entries (lines 218-220): the text written to CONFIG_FILE.
WritePromptEntries(entries) ==
    [exists |-> TRUE,
     text |-> Join([i \in DOMAIN entries |-> entries[i].title \o << ";" >> \o entries[i].prompt \o << ";" >>],
                   "\n")]

\* Line 301: the stripped, non-empty segments of a line.
Parts(line) ==
    LET stripped == [i \in DOMAIN Split(line, ";") |-> Strip(Split(line, ";")[i])]
    IN  SelectSeq(stripped, LAMBDA segment : segment # << >>)

\* _parse_prompt_lines (lines 298-304).
RECURSIVE PromptsOf(_)
PromptsOf(lines) ==
    IF lines = << >> THEN << >>
    ELSE (IF Len(Parts(lines[1])) >= 2
          THEN << [title |-> Parts(lines[1])[1], prompt |-> Parts(lines[1])[2]] >>
          ELSE << >>) \o PromptsOf(Tail(lines))

ParsePromptLines(raw) == PromptsOf(SplitLines(raw))

\* DEFAULT_PROMPT (line 114), abbreviated: a title and a prompt of letters
\* and inner blanks.
DefaultPrompt == [title |-> << "a", "a" >>, prompt |-> << "a", " ", "a" >>]

\* CONFIG_FILE before _ensure_prompt_store created it.
NoFile == [exists |-> FALSE, text |-> << >>]

\* _ensure_prompt_store (lines 212-215): the file afterwards.
EnsurePromptStore(file) == IF file.exists THEN file ELSE WritePromptEntries(<< DefaultPrompt >>)

\* _load_prompt_entries (lines 307-316): the list returned.
LoadPromptEntries(file) == ParsePromptLines(EnsurePromptStore(file).text)

\* _upsert_prompt_entry (lines 319-329): the list written and returned.
UpsertPromptEntry(file, title, prompt) ==
    LET prompts == LoadPromptEntries(file)
        found == { i \in DOMAIN prompts : prompts[i].title = title }
        first == CHOOSE i \in found : \A j \in found : i <= j
    IN  IF found # {} THEN [prompts EXCEPT ![first] = [title |-> title, prompt |-> prompt]]
        ELSE Append(prompts, [title |-> title, prompt |-> prompt])

\* Titles and prompts a request may carry.  Prompts: empty, blank, a word,
\* a word with a blank after it, two words, two lines, and texts holding
\* the separator.
PromptTexts ==
    { << >>, << " " >>, << "a" >>, << "a", " " >>, << "a", " ", "a" >>, << "a", "\n", "a" >>,
      << "a", ";", "a" >>, << "a", ";" >>, << ";" >> }

PromptTitles == { << "a" >>, << "a", "a" >>, << "a", ";" >> }

\* Files a user may upload: no prompt, one prompt, two prompts under one
\* title.
Uploads ==
    { << "a" >>, << "a", ";", "a", ";" >>,
      << "a", ";", "a", ";", "\n", "a", ";", " ", "a" >> }

\* ------------------------------------------------------------ server port

\* _is_unsafe_browser_port (lines 1895-1909).
IsUnsafeBrowserPort(port) ==
    \/ port <= 0
    \/ port > 65535
    \/ 6000 <= port /\ port <= 6063
    \/ port \in 6665..6669

\* What s.bind((host, port)) of line 1916 does while the ports of `free` can
\* be bound: it raises OverflowError for a port beyond 65535, OSError for a
\* port in use.
BindOutcome(port, free) ==
    IF port > 65535 THEN "OverflowError"
    ELSE IF port \in free THEN "bound" ELSE "OSError"

\* _is_port_available (lines 1912-1919), which catches OSError alone: its
\* answer when it returns, an OverflowError leaving through its callers.
IsPortAvailable(port, free) == BindOutcome(port, free) = "bound"

\* The scan of lines 1938-1945 from `candidate` up to `stop`: the first
\* candidate that is free and safe, 0 when there is none (lines 1946-1952).
RECURSIVE ScanForward(_, _, _)
ScanForward(candidate, stop, free) ==
    IF candidate > stop THEN [port |-> 0, warned |-> TRUE]
    ELSE IF BindOutcome(candidate, free) = "OverflowError" THEN Raises
    ELSE IF IsPortAvailable(candidate, free) /\ ~IsUnsafeBrowserPort(candidate)
    THEN [port |-> candidate, warned |-> TRUE]
    ELSE ScanForward(candidate + 1, stop, free)

\* The port of lines 1926-1935: 8000 in place of an unsafe request.
FirstChoice(requested) == IF IsUnsafeBrowserPort(requested) THEN 8000 ELSE requested

\* _choose_bind (lines 1922-1952): the port and whether a warning is given.
ChooseBind(requested, free) ==
    LET port == FirstChoice(requested)
    IN  IF port # 0 /\ BindOutcome(port, free) = "OverflowError" THEN Raises
        ELSE IF port # 0 /\ ~IsPortAvailable(port, free)
        THEN ScanForward(port + 1, port + 50, free)
        ELSE [port |-> port, warned |-> IsUnsafeBrowserPort(requested)]

\* The ports the scan of lines 1936-1937 hands to _is_port_available, in
\* order, from `candidate` up to `stop`.
RECURSIVE ScanProbes(_, _, _)
ScanProbes(candidate, stop, free) ==
    IF candidate > stop THEN << >>
    ELSE IF BindOutcome(candidate, free) = "OverflowError" THEN << candidate >>
    ELSE IF IsPortAvailable(candidate, free) /\ ~IsUnsafeBrowserPort(candidate) THEN << candidate >>
    ELSE << candidate >> \o ScanProbes(candidate + 1, stop, free)

\* The ports _choose_bind hands to _is_port_available (lines 1935, 1937).
ProbedPorts(requested, free) ==
    IF FirstChoice(requested) = 0 THEN << >>
    ELSE IF BindOutcome(FirstChoice(requested), free) # "OSError" THEN << FirstChoice(requested) >>
    ELSE << FirstChoice(requested) >>
           \o ScanProbes(FirstChoice(requested) + 1, FirstChoice(requested) + 50, free)

\* Ports asked for with --port: none, negative, around the blocked ranges,
\* the default, the last ports and beyond.
RequestedPorts ==
    {-1, 0, 80, 5949, 5990, 6000, 6063, 6064, 6640, 6669, 8000, 65500, 65535, 65536}

\* Which ports are free: none, all, only the first choice, only one of the
\* 50 ports after it, or all but the first choice.
FreePatterns(requested) ==
    LET port == FirstChoice(requested)
        window == (port + 1)..(port + 50)
    IN  { {}, 0..65535, {port}, (0..65535) \ {port} } \cup { {c} : c \in window }

\* ----------------------------------------------------------------- state

\* The worker threads of the server (app.run serves each request in a
\* thread of its own).
Workers == 1..MaxWorkers

\* A worker that handles no request.
Idle == [route |-> "idle"]

\* A request under way: the handler's next assignment to `state` is the one
\* of field `pc`; `held` carries its local values (match, screenshot,
\* crop_box) as the session it will have written, `resp` its response.
Pending(route, pc, held, resp) == [route |-> route, pc |-> pc, held |-> held, resp |-> resp]

\* Crop members of the /api/ocr requests that overlap other requests.
OverlapPayloads == { None, CropLTRB(0, 0, 30, 15, TRUE), CropLTRB(2, 5, 12, 15, TRUE) }

VARIABLES
    state,            \* the module-level AppState of the server
    last,             \* the response to the most recent request, with what it did
    captures,         \* number of images captured so far
    requests,         \* the requests being handled, one per worker thread
    cropBox,          \* script: the committed crop, in image pixels, or None
    commitRect,       \* the rectangle the preview was displayed in when cropBox was
                      \* committed (history; the script keeps no such value)
    naturalWidth,     \* script: natural size of the loaded preview
    naturalHeight,
    isSelectingCrop,  \* script: selection mode
    firstCropPoint,   \* script: the first corner, in displayed pixels, or None
    activePointerId,  \* script: the pointer being tracked, 0 for null
    anchorRect,       \* the rectangle the preview was displayed in when firstCropPoint
                      \* was recorded (history; the script keeps no such value)
    pointerMoved,     \* script: the pointer moved more than 2 px since pointer-down
    overlay,          \* the box #crop-overlay shows, None when it is hidden
    imgSrc,           \* src of #captureImage
    shown,            \* the image #captureImage displays, None when it has none
    loading,          \* a fetch of imgSrc is under way
    selections,       \* number of times selection mode was entered
    bind,             \* main(): the requested port, the ports that are free and what
                      \* _choose_bind answered, None before it was called
    queueItems,       \* script: the OCR results saved for the AI request
    lastOcrText,      \* script: the text of the latest OCR result, "" when none
    lastOcrImage,     \* script: the image of the latest OCR result, or None
    configFile        \* CONFIG_FILE (prompts.txt): whether it exists, and its text

server == << state, last, captures, requests >>

startup == << bind >>

batch == << queueItems, lastOcrText, lastOcrImage >>

disk == << configFile >>

selector == << cropBox, commitRect, isSelectingCrop, firstCropPoint, activePointerId, pointerMoved, overlay,
              anchorRect >>

preview == << naturalWidth, naturalHeight, imgSrc, shown, loading, selections >>

vars == << server, selector, preview, startup, batch, disk >>

\* The server started on the default port, which was free (lines 1967, 1979).
Started == [requested |-> 8000, free |-> {8000}, chosen |-> ChooseBind(8000, {8000})]

\* The page as served while the session holds no capture (has_capture false),
\* after the script ran clearCrop(true) (line 1881).
InitSession ==
    /\ state = InitialState
    /\ last = Response("none", 0, "", InitialState)
    /\ captures = 0
    /\ requests = [w \in Workers |-> Idle]
    /\ cropBox = None
    /\ commitRect = None
    /\ naturalWidth = 0
    /\ naturalHeight = 0
    /\ isSelectingCrop = FALSE
    /\ firstCropPoint = None
    /\ activePointerId = 0
    /\ anchorRect = None
    /\ pointerMoved = FALSE
    /\ overlay = None
    /\ imgSrc = ""
    /\ shown = None
    /\ loading = FALSE
    /\ selections = 0
    /\ queueItems = << >>
    /\ lastOcrText = ""
    /\ lastOcrImage = None
    /\ configFile = NoFile

Init == InitSession /\ bind = Started

\* main() before _choose_bind is called (lines 1955-1978): a port was asked
\* for and some ports are free.
InitBind ==
    /\ InitSession
    /\ \E requested \in RequestedPorts :
         \E free \in FreePatterns(requested) :
             bind = [requested |-> requested, free |-> free, chosen |-> None]

\* ------------------------------------------------- requests sent directly

\* A handler's outcome becomes the session and the latest response.
Served(out) ==
    /\ state' = out.state
    /\ last' = out.resp
    /\ UNCHANGED requests

\* A capture that succeeded is counted: its image is the next new one.
CaptureServed(out) ==
    /\ Served(out)
    /\ captures' = IF out.resp.code = 200 THEN captures + 1 ELSE captures

\* POST /api/capture, the environment answering as one of `envs`.
ApiCapture(envs) ==
    /\ captures < MaxCaptures
    /\ \E title \in {"", "w"} :
         \E env \in (IF title = "" THEN {DefaultCaptureEnv} ELSE envs) :
             CaptureServed(ApiCaptureHandler(state, title, env, captures + 1))
    /\ UNCHANGED << selector, preview, bind, disk, batch >>

\* POST /api/clear_capture
ApiClearCapture ==
    /\ Served(ApiClearCaptureHandler(state))
    /\ UNCHANGED << captures, selector, preview, bind, disk, batch >>

\* POST /api/ocr.  Without pytesseract the body is never read.
ApiOcr ==
    /\ \E env \in OcrEnvs :
         \E crop \in (IF env.pytesseract THEN CropPayloads ELSE {None}) :
             Served(ApiOcrHandler(state, crop, env))
    /\ UNCHANGED << captures, selector, preview, bind, disk, batch >>

\* The outcome of an /api/ocr request, its response remembering the request
\* and whether it repeats the request answered just before.
Asked(out, crop, env) ==
    [out EXCEPT !.resp.asked =
        [crop |-> crop, env |-> env,
         again |-> last.route = "ocr" /\ last.asked.crop = crop /\ last.asked.env = env]]

\* POST /api/configs (lines 764-765, 794-798): the stripped title and prompt
\* are saved; the response remembers them and the entries stored before.
ApiConfigsSave ==
    /\ \E title \in PromptTitles, prompt \in PromptTexts :
         IF Strip(title) = << >> \/ Strip(prompt) = << >>
         THEN /\ last' = Response("configs", 400, "Title and prompt are required.", state)
              /\ UNCHANGED configFile
         ELSE /\ Len(UpsertPromptEntry(configFile, Strip(title), Strip(prompt))) <= MaxPrompts
              /\ configFile' = WritePromptEntries(UpsertPromptEntry(configFile, Strip(title), Strip(prompt)))
              /\ last' = [Response("configs", 200, "", state) EXCEPT
                            !.asked = [title |-> Strip(title), prompt |-> Strip(prompt),
                                       before |-> LoadPromptEntries(configFile)]]
    /\ UNCHANGED << state, captures, requests, selector, preview, bind, batch >>

\* POST /api/configs/upload (lines 801-818) with one of Uploads.
ApiConfigsUpload ==
    /\ \E content \in Uploads :
         IF ParsePromptLines(content) = << >>
         THEN /\ last' = Response("upload", 400, "No valid prompts found in the file.", state)
              /\ UNCHANGED configFile
         ELSE /\ Len(LoadPromptEntries(configFile) \o ParsePromptLines(content)) <= MaxPrompts
              /\ configFile' = WritePromptEntries(LoadPromptEntries(configFile) \o ParsePromptLines(content))
              /\ last' = Response("upload", 200, "", state)
    /\ UNCHANGED << state, captures, requests, selector, preview, bind, batch >>

\* POST /api/ocr with one of the crops of RepeatPayloads, the request kept
\* with the response.
ApiOcrAsked ==
    /\ \E env \in OcrEnvs :
         \E crop \in (IF env.pytesseract THEN RepeatPayloads ELSE {None}) :
             Served(Asked(ApiOcrHandler(state, crop, env), crop, env))
    /\ UNCHANGED << captures, selector, preview, bind, disk, batch >>

\* --------------------------------------------------------- browser script

\* A clearCrop that hides the overlay and leaves selection mode but keeps
\* the stored box.
ClearCropKeepingBox ==
    /\ firstCropPoint' = None
    /\ isSelectingCrop' = FALSE
    /\ activePointerId' = 0
    /\ anchorRect' = None
    /\ pointerMoved' = FALSE
    /\ overlay' = None
    /\ UNCHANGED << cropBox, commitRect >>

\* clearCrop (lines 1500-1511).
ClearCropEffect ==
    /\ cropBox' = None
    /\ commitRect' = None
    /\ firstCropPoint' = None
    /\ isSelectingCrop' = FALSE
    /\ activePointerId' = 0
    /\ anchorRect' = None
    /\ pointerMoved' = FALSE
    /\ overlay' = None

\* The "Clear crop" button.
ClearCrop ==
    /\ ClearCropEffect
    /\ UNCHANGED << server, preview, bind, disk, batch >>

\* Lines 1358-1376 of capture(): an error leaves the page as it is; on
\* success the preview is fetched anew and clearCrop(true) runs.
CaptureHandled(out) ==
    /\ CaptureServed(out)
    /\ UNCHANGED << bind, disk, batch >>
    /\ IF out.resp.code = 200
       THEN /\ imgSrc' = "/image"
            /\ loading' = TRUE
            /\ ClearCropEffect
            /\ UNCHANGED << naturalWidth, naturalHeight, shown, selections >>
       ELSE UNCHANGED << selector, preview >>

\* The state of the crop selector: Idle, ArmedForSelection (selection mode,
\* no first corner yet), Dragging (first corner set) or Committed.
Phase ==
    IF isSelectingCrop THEN (IF firstCropPoint = None THEN "Armed" ELSE "Dragging")
    ELSE IF cropBox = None THEN "Idle" ELSE "Committed"

\* A request of the page's script: its response remembers the selector the
\* page had when the answer arrived.
Sent(out) == [out EXCEPT !.resp.page = [phase |-> Phase, cropBox |-> cropBox]]

\* capture() (lines 1346-1377): the request and the handling of its answer,
\* the environment answering as one of `envs`.  With no window selected
\* nothing is sent.
CaptureIn(envs) ==
    /\ captures < MaxCaptures
    /\ \E title \in {"", "w"} :
         IF title = "" THEN UNCHANGED vars
         ELSE \E env \in envs :
                CaptureHandled(Sent(ApiCaptureHandler(state, title, env, captures + 1)))

\* The "Capture" button.
Capture == CaptureIn(ClientCaptureEnvs)

\* The preview finishes loading: GET /image answers with the captured image
\* and the load handler records its natural size (lines 1429-1435) and sizes
\* the overlay to the displayed image; without a capture the fetch fails and
\* the element shows nothing.
ImageLoad ==
    /\ loading
    /\ loading' = FALSE
    /\ IF state.captured_image = None
       THEN /\ shown' = None
            /\ UNCHANGED << naturalWidth, naturalHeight, overlay >>
       ELSE /\ shown' = state.captured_image
            /\ naturalWidth' = state.captured_image.w
            /\ naturalHeight' = state.captured_image.h
            /\ \E z \in Zooms :
                 LET rect == DisplayRect(state.captured_image, z)
                 IN  overlay' = IF overlay = None THEN None
                                ELSE [overlay EXCEPT !.width = rect.width, !.height = rect.height]
    /\ UNCHANGED << bind, disk, batch, server, imgSrc, selections, cropBox, commitRect, isSelectingCrop, firstCropPoint,
                    activePointerId, pointerMoved, anchorRect >>

\* startCropSelection (lines 1491-1498), called at most `limit` times.
Arm(limit) ==
    /\ selections < limit
    /\ selections' = selections + 1
    /\ \E src \in SrcRead(imgSrc) :
         IF src = "" THEN UNCHANGED isSelectingCrop ELSE isSelectingCrop' = TRUE
    /\ UNCHANGED << bind, disk, batch, server, naturalWidth, naturalHeight, imgSrc, shown, loading, cropBox, commitRect,
                    firstCropPoint, activePointerId, pointerMoved, overlay,
                    anchorRect >>

\* The "Start crop" button.
StartCropSelection == Arm(MaxSelections)

\* A commitCrop that stores the box and stays in selection mode.
CommitCropStayingArmed(endPoint) ==
    LET committed == CommitCropBox(firstCropPoint, endPoint, naturalWidth, naturalHeight)
    IN  /\ cropBox' = committed
        /\ commitRect' = endPoint.rect
        /\ overlay' = committed.display
        /\ firstCropPoint' = None
        /\ activePointerId' = 0
        /\ anchorRect' = None
        /\ pointerMoved' = FALSE
        /\ UNCHANGED isSelectingCrop

\* commitCrop(endPoint) (lines 1405-1428) with firstCropPoint set.
CommitCropEffect(endPoint) ==
    LET committed == CommitCropBox(firstCropPoint, endPoint, naturalWidth, naturalHeight)
    IN  /\ cropBox' = committed
        /\ commitRect' = endPoint.rect
        /\ overlay' = committed.display
        /\ isSelectingCrop' = FALSE
        /\ firstCropPoint' = None
        /\ activePointerId' = 0
        /\ anchorRect' = None
        /\ pointerMoved' = FALSE

\* The pointer events the displayed preview can receive, at positions
\* xs x ys and at the zooms zs.
PointerEventsAt(xs, ys, zs) ==
    IF shown = None \/ shown.w = 0 \/ shown.h = 0 THEN {}
    ELSE { [pointerId |-> id, x |-> x, y |-> y, rect |-> DisplayRect(shown, z)] :
             id \in PointerIds, x \in xs, y \in ys, z \in zs }

PointerEvents == PointerEventsAt(PointerXs, PointerYs, Zooms)

\* A pointer event at (clientX, clientY) of the viewport while the preview
\* is displayed in `rect` (left, top, width, height): pointFromEvent
\* subtracts rect.left and rect.top (lines 1399-1400).
ClientEvent(id, clientX, clientY, rect) ==
    [pointerId |-> id, x |-> clientX - rect.left, y |-> clientY - rect.top,
     rect |-> [width |-> rect.width, height |-> rect.height]]

\* The events of the model of the coordinate mapping: one pointer, every
\* column of the small previews, the top row and a row below, at the three
\* zooms.
MappingEvents ==
    IF shown = None THEN {}
    ELSE { ClientEvent(1, x, y, [left |-> 0, top |-> 150] @@ DisplayRect(shown, z)) :
             x \in (0..12) \cup {100, 300}, y \in {150, 350}, z \in MappingZooms }

\* The events of the model of the crop selector alone: inside and beyond
\* the preview, shown at its natural size.
SelectorEvents == PointerEventsAt({1, 40}, {2, 40}, {<< 1, 1 >>})

\* A pointerdown handler without the check of line 1438: it records or
\* commits whether or not selection mode is on.
PointerDownWithoutModeCheck(events) ==
    /\ \E ev \in events :
         LET point == PointFromEvent(ev, ev.rect)
         IN  IF firstCropPoint = None
             THEN /\ pointerMoved' = FALSE
                  /\ firstCropPoint' = [x |-> point.x, y |-> point.y]
                  /\ activePointerId' = ev.pointerId
                  /\ anchorRect' = ev.rect
                  /\ overlay' = [x |-> point.x, y |-> point.y, width |-> 2, height |-> 2]
                  /\ UNCHANGED << cropBox, commitRect, isSelectingCrop >>
             ELSE CommitCropEffect(point)
    /\ UNCHANGED << server, preview, bind, disk, batch >>

\* pointerdown handler (lines 1437-1450) for an event of `events`.
PointerDownOn(events) ==
    /\ \E ev \in events :
         LET point == PointFromEvent(ev, ev.rect)
         IN  IF ~isSelectingCrop THEN UNCHANGED selector
             ELSE IF firstCropPoint = None
             THEN /\ pointerMoved' = FALSE
                  /\ firstCropPoint' = [x |-> point.x, y |-> point.y]
                  /\ activePointerId' = ev.pointerId
                  /\ anchorRect' = ev.rect
                  /\ overlay' = [x |-> point.x, y |-> point.y, width |-> 2, height |-> 2]
                  /\ UNCHANGED << cropBox, commitRect, isSelectingCrop >>
             ELSE CommitCropEffect(point)
    /\ UNCHANGED << server, preview, bind, disk, batch >>

\* A pointermove handler that drags the first corner along with the pointer.
PointerMoveMovingAnchor(events) ==
    /\ \E ev \in events :
         LET point == PointFromEvent(ev, ev.rect)
         IN  IF ~isSelectingCrop \/ firstCropPoint = None \/ ev.pointerId # activePointerId
             THEN UNCHANGED selector
             ELSE /\ pointerMoved' = (\/ pointerMoved
                                      \/ Abs(point.x - firstCropPoint.x) > 2
                                      \/ Abs(point.y - firstCropPoint.y) > 2)
                  /\ overlay' = SpannedBox(firstCropPoint, point)
                  /\ firstCropPoint' = [x |-> point.x, y |-> point.y]
                  /\ UNCHANGED << cropBox, commitRect, isSelectingCrop, activePointerId, anchorRect >>
    /\ UNCHANGED << server, preview, bind, disk, batch >>

\* pointermove handler (lines 1452-1463) for an event of `events`.
PointerMoveOn(events) ==
    /\ \E ev \in events :
         LET point == PointFromEvent(ev, ev.rect)
         IN  IF ~isSelectingCrop \/ firstCropPoint = None \/ ev.pointerId # activePointerId
             THEN UNCHANGED selector
             ELSE /\ pointerMoved' = (\/ pointerMoved
                                      \/ Abs(point.x - firstCropPoint.x) > 2
                                      \/ Abs(point.y - firstCropPoint.y) > 2)
                  /\ overlay' = SpannedBox(firstCropPoint, point)
                  /\ UNCHANGED << cropBox, commitRect, isSelectingCrop, firstCropPoint, activePointerId, anchorRect >>
    /\ UNCHANGED << server, preview, bind, disk, batch >>

\* A pointerup handler that commits at every release of the tracked pointer,
\* moved or not.
PointerUpAlwaysCommitting(events) ==
    /\ \E ev \in events :
         LET point == PointFromEvent(ev, ev.rect)
         IN  IF ~isSelectingCrop \/ firstCropPoint = None \/ ev.pointerId # activePointerId
             THEN UNCHANGED selector
             ELSE CommitCropEffect(point)
    /\ UNCHANGED << server, preview, bind, disk, batch >>

\* A pointerup handler that forgets the first corner when the pointer is
\* released without having moved.
PointerUpDroppingAnchor(events) ==
    /\ \E ev \in events :
         LET point == PointFromEvent(ev, ev.rect)
         IN  IF ~isSelectingCrop \/ firstCropPoint = None \/ ev.pointerId # activePointerId
             THEN UNCHANGED selector
             ELSE IF pointerMoved THEN CommitCropEffect(point)
             ELSE /\ activePointerId' = 0
                  /\ firstCropPoint' = None
                  /\ UNCHANGED << cropBox, commitRect, isSelectingCrop, pointerMoved, overlay, anchorRect >>
    /\ UNCHANGED << server, preview, bind, disk, batch >>

\* pointerup handler (lines 1465-1475) for an event of `events`.
PointerUpOn(events) ==
    /\ \E ev \in events :
         LET point == PointFromEvent(ev, ev.rect)
         IN  IF ~isSelectingCrop \/ firstCropPoint = None \/ ev.pointerId # activePointerId
             THEN UNCHANGED selector
             ELSE IF pointerMoved THEN CommitCropEffect(point)
             ELSE /\ activePointerId' = 0
                  /\ UNCHANGED << cropBox, commitRect, isSelectingCrop, firstCropPoint, pointerMoved, overlay,
                               anchorRect >>
    /\ UNCHANGED << server, preview, bind, disk, batch >>

PointerDown == PointerDownOn(PointerEvents)

PointerMove == PointerMoveOn(PointerEvents)

PointerUp == PointerUpOn(PointerEvents)

\* runOcr (lines 1512-1541) while the environment answers as one of `envs`:
\* the request built from cropBox, and the result kept when it succeeds.
RunOcrOn(envs) ==
    /\ \E env \in envs :
         /\ Served(Sent(ApiOcrHandler(state, OcrPayload(cropBox), env)))
         /\ IF last'.code = 200
            THEN lastOcrText' = OcrText(env) /\ lastOcrImage' = [tag |-> "DataUrl"]
            ELSE UNCHANGED << lastOcrText, lastOcrImage >>
    /\ UNCHANGED << captures, selector, preview, bind, disk, queueItems >>

RunOcr == RunOcrOn(OcrEnvs)

\* An addToQueue without the check of lines 1593-1596.
AddToQueueUnbounded ==
    /\ IF lastOcrText = ""
       THEN UNCHANGED queueItems
       ELSE queueItems' = Append(queueItems, [text |-> lastOcrText, image |-> lastOcrImage])
    /\ UNCHANGED << server, selector, preview, bind, disk, lastOcrText, lastOcrImage >>

\* addToQueue (lines 1588-1601).
AddToQueue ==
    /\ IF lastOcrText = "" \/ Len(queueItems) >= maxQueueItems
       THEN UNCHANGED queueItems
       ELSE queueItems' = Append(queueItems, [text |-> lastOcrText, image |-> lastOcrImage])
    /\ UNCHANGED << server, selector, preview, bind, disk, lastOcrText, lastOcrImage >>

\* clearQueue (lines 1603-1607).
ClearQueue ==
    /\ queueItems' = << >>
    /\ UNCHANGED << server, selector, preview, bind, disk, lastOcrText, lastOcrImage >>

\* clearAfterResult (lines 1809-1832): the crop and the preview are cleared,
\* then the server is asked to drop the capture; a request that fails is
\* ignored.
ClearAfterResult ==
    /\ ClearCropEffect
    /\ imgSrc' = ""
    /\ shown' = None
    /\ loading' = FALSE
    /\ queueItems' = << >>
    /\ lastOcrText' = ""
    /\ lastOcrImage' = None
    /\ \/ Served(Sent(ApiClearCaptureHandler(state)))
       \/ UNCHANGED << state, last, requests >>
    /\ UNCHANGED << captures, naturalWidth, naturalHeight, selections, bind, disk >>

\* A sendAiRequest whose clearAfterResult keeps the latest OCR result.
SendAiRequestKeepingResult(envs) ==
    \E env \in envs :
      IF ApiAiResponseHandler(state, queueItems, env).resp.code # 200
      THEN /\ last' = Sent(ApiAiResponseHandler(state, queueItems, env)).resp
           /\ UNCHANGED << state, captures, requests, selector, preview, bind, disk, batch >>
      ELSE /\ ClearCropEffect
           /\ imgSrc' = ""
           /\ shown' = None
           /\ loading' = FALSE
           /\ queueItems' = << >>
           /\ \/ Served(Sent(ApiClearCaptureHandler(state)))
              \/ /\ last' = Sent(ApiAiResponseHandler(state, queueItems, env)).resp
                 /\ UNCHANGED << state, requests >>
           /\ UNCHANGED << captures, naturalWidth, naturalHeight, selections, bind, disk,
                           lastOcrText, lastOcrImage >>

\* sendAiRequest (lines 1787-1807) while the provider answers as one of
\* `envs`: an error is shown and nothing else happens; after a response
\* clearAfterResult runs, its own request answered or failing.
SendAiRequestOn(envs) ==
    \E env \in envs :
      IF ApiAiResponseHandler(state, queueItems, env).resp.code # 200
      THEN /\ last' = Sent(ApiAiResponseHandler(state, queueItems, env)).resp
           /\ UNCHANGED << state, captures, requests, selector, preview, bind, disk, batch >>
      ELSE /\ ClearCropEffect
           /\ imgSrc' = ""
           /\ shown' = None
           /\ loading' = FALSE
           /\ queueItems' = << >>
           /\ lastOcrText' = ""
           /\ lastOcrImage' = None
           /\ \/ Served(Sent(ApiClearCaptureHandler(state)))
              \/ /\ last' = Sent(ApiAiResponseHandler(state, queueItems, env)).resp
                 /\ UNCHANGED << state, requests >>
           /\ UNCHANGED << captures, naturalWidth, naturalHeight, selections, bind, disk >>

\* -------------------------------------------------- requests that overlap

\* A worker moves on to the assignment of `pc`, or becomes idle.
Moved(w, pc) ==
    requests' = [requests EXCEPT ![w] = IF pc = "" THEN Idle ELSE [@ EXCEPT !.pc = pc]]

\* api_capture up to line 703: an error is answered at once; a screenshot
\* is held for the three assignments of lines 705-707.
CaptureBegun(w, out) ==
    IF out.resp.code # 200
    THEN /\ last' = out.resp
         /\ UNCHANGED << state, captures, requests >>
    ELSE /\ requests' = [requests EXCEPT
                           ![w] = Pending("capture", "selected_window", out.state, out.resp)]
         /\ captures' = captures + 1
         /\ UNCHANGED << state, last >>

BeginCapture ==
    /\ captures < MaxCaptures
    /\ \E w \in Workers, env \in ClientCaptureEnvs :
         /\ requests[w].route = "idle"
         /\ CaptureBegun(w, ApiCaptureHandler(state, "w", env, captures + 1))
    /\ UNCHANGED << selector, preview, bind, disk, batch >>

\* Line 705: state.selected_window = match
AssignSelectedWindow ==
    /\ \E w \in Workers :
         /\ requests[w].route = "capture" /\ requests[w].pc = "selected_window"
         /\ state' = [state EXCEPT !.selected_window = requests[w].held.selected_window]
         /\ Moved(w, "captured_image")
    /\ UNCHANGED << last, captures, selector, preview, bind, disk, batch >>

\* Line 706: state.captured_image = screenshot
AssignCapturedImage ==
    /\ \E w \in Workers :
         /\ requests[w].route = "capture" /\ requests[w].pc = "captured_image"
         /\ state' = [state EXCEPT !.captured_image = requests[w].held.captured_image]
         /\ Moved(w, "crop_box")
    /\ UNCHANGED << last, captures, selector, preview, bind, disk, batch >>

\* Lines 707-708: state.crop_box = None, and the answer.
AssignNoCropBox ==
    /\ \E w \in Workers :
         /\ requests[w].route = "capture" /\ requests[w].pc = "crop_box"
         /\ state' = [state EXCEPT !.crop_box = None]
         /\ last' = requests[w].resp
         /\ Moved(w, "")
    /\ UNCHANGED << captures, selector, preview, bind, disk, batch >>

\* api_clear_capture, line 713: state.captured_image = None
BeginClear ==
    /\ \E w \in Workers :
         /\ requests[w].route = "idle"
         /\ state' = [state EXCEPT !.captured_image = None]
         /\ requests' = [requests EXCEPT
                           ![w] = Pending("clear_capture", "crop_box", state,
                                          Response("clear_capture", 200, "", state))]
    /\ UNCHANGED << last, captures, selector, preview, bind, disk, batch >>

\* Lines 714-715: state.crop_box = None, and the answer.
FinishClear ==
    /\ \E w \in Workers :
         /\ requests[w].route = "clear_capture" /\ requests[w].pc = "crop_box"
         /\ state' = [state EXCEPT !.crop_box = None]
         /\ last' = requests[w].resp
         /\ Moved(w, "")
    /\ UNCHANGED << captures, selector, preview, bind, disk, batch >>

\* api_ocr up to line 731: a 400 is answered at once; otherwise the crop
\* box parsed against the image read at line 728 is held.
OcrBegun(w, out) ==
    IF out.resp.code = 400
    THEN /\ last' = out.resp
         /\ UNCHANGED << state, requests >>
    ELSE /\ requests' = [requests EXCEPT ![w] = Pending("ocr", "crop_box", out.state, out.resp)]
         /\ UNCHANGED << state, last >>

BeginOcr ==
    /\ \E w \in Workers, env \in OcrEnvs, crop \in OverlapPayloads :
         /\ requests[w].route = "idle"
         /\ OcrBegun(w, ApiOcrHandler(state, crop, env))
    /\ UNCHANGED << captures, selector, preview, bind, disk, batch >>

\* Lines 733-755: state.crop_box = crop_box (or None), OCR, and the answer.
StoreCropBox ==
    /\ \E w \in Workers :
         /\ requests[w].route = "ocr" /\ requests[w].pc = "crop_box"
         /\ state' = StoreCrop(state, requests[w].held.crop_box)
         /\ last' = requests[w].resp
         /\ Moved(w, "")
    /\ UNCHANGED << captures, selector, preview, bind, disk, batch >>

\* Line 1979 of main(): _choose_bind answers.
Main ==
    /\ bind.chosen = None
    /\ bind' = [bind EXCEPT !.chosen = ChooseBind(bind.requested, bind.free)]
    /\ UNCHANGED << server, selector, preview, batch, disk >>

\* ---------------------------------------------------------- specifications

\* The start of the server under every requested port and pattern of free
\* ports of the model.
NextBind == Main

SpecBind == InitBind /\ [][NextBind]_vars

\* The session under any sequence of requests that do not overlap.  Here
\* the capture engine meets the environments in which no OS call raises
\* after the window DC was obtained.
Next == ApiCapture(SessionCaptureEnvs) \/ ApiClearCapture \/ ApiOcr

Spec == Init /\ [][Next]_vars

\* The capture engine under every environment.
NextCapture == ApiCapture(CaptureEnvs) \/ ApiClearCapture

SpecCapture == Init /\ [][NextCapture]_vars

\* The session under requests that may be sent again: captures, clears and
\* OCR requests whose crop the response remembers.
NextRepeat == ApiCapture(SessionCaptureEnvs) \/ ApiClearCapture \/ ApiOcrAsked

SpecRepeat == Init /\ [][NextRepeat]_vars

\* The browser session: the script of the page drives the server.
NextClient ==
    \/ Capture
    \/ ImageLoad
    \/ StartCropSelection
    \/ PointerDown
    \/ PointerMove
    \/ PointerUp
    \/ ClearCrop
    \/ RunOcr

SpecClient == Init /\ [][NextClient]_vars

\* The page after a window of one of MappingSizes was captured through the
\* region grab, its preview loaded and 'Start crop' pressed.
InitMapping ==
    \E size \in MappingSizes :
      LET window == [title |-> "w", left |-> 0, top |-> 0, width |-> size[1],
                     height |-> size[2], hwnd |-> 0]
          out == ApiCaptureHandler(InitialState, "w", [DefaultCaptureEnv EXCEPT !.listed = window], 1)
      IN  /\ state = out.state
          /\ last = [out.resp EXCEPT !.page = [phase |-> "Idle", cropBox |-> None]]
          /\ captures = 1
          /\ requests = [w \in Workers |-> Idle]
          /\ cropBox = None
          /\ commitRect = None
          /\ naturalWidth = size[1]
          /\ naturalHeight = size[2]
          /\ isSelectingCrop = TRUE
          /\ firstCropPoint = None
          /\ activePointerId = 0
          /\ anchorRect = None
          /\ pointerMoved = FALSE
          /\ overlay = None
          /\ imgSrc = "/image"
          /\ shown = out.state.captured_image
          /\ loading = FALSE
          /\ selections = 1
          /\ bind = Started
          /\ queueItems = << >>
          /\ lastOcrText = ""
          /\ lastOcrImage = None
          /\ configFile = NoFile

\* The coordinate mapping: one selection on previews of several sizes.
NextMapping ==
    \/ PointerDownOn(MappingEvents)
    \/ PointerMoveOn(MappingEvents)
    \/ PointerUpOn(MappingEvents)

SpecMapping == InitMapping /\ [][NextMapping]_vars

\* The events of the model of two-tap and drag selection: two pointers, at
\* columns 0, 2 and 3 px away from column 1, on two rows 2 px apart, the
\* preview shown at its natural size.
TapEvents == PointerEventsAt({1, 3, 4}, {2, 4}, {<< 1, 1 >>})

\* Two-tap and drag selection: the pointer events on a loaded preview, and
\* 'Select crop area' pressed again.
NextTap ==
    \/ Arm(MaxArmings)
    \/ PointerDownOn(TapEvents)
    \/ PointerMoveOn(TapEvents)
    \/ PointerUpOn(TapEvents)

SpecTap == InitMapping /\ [][NextTap]_vars

\* The pointer events of the model of the queue: taps of one pointer at two
\* points of the preview shown at its natural size.
QueueEvents ==
    { ev \in PointerEventsAt({1, 40}, {2, 40}, {<< 1, 1 >>}) : ev.pointerId = 1 /\ (ev.x = 1) = (ev.y = 2) }

\* The queue of OCR results and the AI request: captures, two-tap crops, OCR,
\* the queue buttons and 'Send to AI'.
NextQueue ==
    \/ CaptureIn(SelectorCaptureEnvs)
    \/ ImageLoad
    \/ Arm(MaxArmings)
    \/ PointerDownOn(QueueEvents)
    \/ RunOcrOn(QueueOcrEnvs)
    \/ AddToQueue
    \/ ClearQueue
    \/ SendAiRequestOn(AiEnvs)

SpecQueue == Init /\ [][NextQueue]_vars

\* The prompt store: prompts saved and prompt files uploaded.
NextPrompts == ApiConfigsSave \/ ApiConfigsUpload

SpecPrompts == Init /\ [][NextPrompts]_vars

\* The crop selector alone: captures, the preview, the buttons and the
\* pointer, selection mode entered up to MaxArmings times.
NextSelector ==
    \/ CaptureIn(SelectorCaptureEnvs)
    \/ ImageLoad
    \/ Arm(MaxArmings)
    \/ PointerDownOn(SelectorEvents)
    \/ PointerMoveOn(SelectorEvents)
    \/ PointerUpOn(SelectorEvents)
    \/ ClearCrop
    \/ ClearAfterResult

SpecSelector == Init /\ [][NextSelector]_vars

\* The server handling up to MaxWorkers requests at the same time, one
\* assignment to the session at a step.
NextOverlap ==
    \/ BeginCapture
    \/ AssignSelectedWindow
    \/ AssignCapturedImage
    \/ AssignNoCropBox
    \/ BeginClear
    \/ FinishClear
    \/ BeginOcr
    \/ StoreCropBox

SpecOverlap == Init /\ [][NextOverlap]_vars

\* ------------------------------------------------------------------ claims

\* C1  Capture replaces state: after every successful POST /api/capture the
\* session holds no crop box and holds the image this capture produced, a
\* new image, whatever crop box was stored before.
C1_CaptureReplacesState ==
    (last.route = "capture" /\ last.code = 200)
        => /\ state.crop_box = None
           /\ state.captured_image = last.cap.image
           /\ state.captured_image # None
           /\ state.captured_image.id = captures

\* A capture succeeded while the session held the crop box an earlier
\* /api/ocr had stored for the previous image.
C1_Witness ==
    /\ last.route = "capture" /\ last.code = 200
    /\ last.hadCrop
    /\ state.captured_image.id = 2

\* Whether box lies within the image: 0 <= left < right <= w and
\* 0 <= top < bottom <= h.
BoxWithin(box, image) ==
    /\ 0 <= box.left /\ box.left < box.right /\ box.right <= image.w
    /\ 0 <= box.top /\ box.top < box.bottom /\ box.bottom <= image.h

\* C2  CropBox invariant: in every state reachable by requests that do not
\* overlap, state.crop_box is None or a rectangle within the bounds of the
\* current state.captured_image, which is then not None.
C2_CropBoxInvariant ==
    state.crop_box # None
        => state.captured_image # None /\ BoxWithin(state.crop_box, state.captured_image)

\* A crop box was stored for a request whose rectangle reached outside the
\* image, on the wider of the two images.
C2_Witness ==
    /\ last.route = "ocr" /\ last.code = 200
    /\ last.crop.outside
    /\ state.crop_box # None
    /\ state.captured_image.w = 24
    /\ state.crop_box.right = 24

\* C3  Minimum crop enforcement: a selection whose box in image pixels is
\* narrower or shorter than 10 px yields no crop box: the script holds no
\* cropBox narrower or shorter than 10 px, and /api/ocr stores none.
C3_MinimumCropEnforced ==
    /\ cropBox # None => cropBox.width >= 10 /\ cropBox.height >= 10
    /\ state.crop_box # None
         => /\ state.crop_box.right - state.crop_box.left >= 10
            /\ state.crop_box.bottom - state.crop_box.top >= 10

\* C4  Clamping: whenever a selection made on the displayed capture produces
\* a crop box, the box lies within [0, w] x [0, h] of the captured image,
\* in the script as in the session.
C4_CropBoxInsideImage ==
    /\ (cropBox # None /\ ~loading /\ shown # None /\ shown = state.captured_image)
         => /\ 0 <= cropBox.x /\ cropBox.x + cropBox.width <= shown.w
            /\ 0 <= cropBox.y /\ cropBox.y + cropBox.height <= shown.h
    /\ state.crop_box # None
         => state.captured_image # None /\ BoxWithin(state.crop_box, state.captured_image)

\* C5  InvalidCrop never escapes: an /api/ocr request that carries a crop
\* rectangle is never answered with an error about that rectangle; a
\* rectangle that fails the invariants is treated as no crop.
C5_InvalidCropNeverEscapes ==
    (last.route = "ocr" /\ last.crop.tag = "rect") => last.code # 400

\* The reverse of a sequence.
Reverse(seq) == [i \in 1..Len(seq) |-> seq[Len(seq) + 1 - i]]

\* C6  Resource release in the primary capture path: once GetWindowDC
\* succeeded, every exit of _capture_hwnd has released each acquired resource
\* exactly once, in reverse order of acquisition, and attempted no release of
\* a resource never acquired.
C6_ReleasedInReverseOrder ==
    (last.route = "capture" /\ last.cap.primary.acquired # << >>)
        => /\ last.cap.primary.released = Reverse(last.cap.primary.acquired)
           /\ ~last.cap.primary.stray

\* Number of PrintWindow calls of a run of _capture_hwnd.
PrintWindowCalls(trace) == Cardinality({ i \in 1..Len(trace.calls) : trace.calls[i] = "PrintWindow" })

\* C7  Fallback: when the primary path was skipped, returned no image or
\* raised, and the region grab is available and succeeds, the capture returns
\* the region-grab image of the selection's rectangle and no error; the
\* region grab is the last call of the capture and is never made when the
\* primary path returned an image.
C7_FallbackAfterPrimary ==
    LET cap == last.cap
        primaryImage == cap.primary.result # None
        grabs == { i \in 1..Len(cap.calls) : cap.calls[i] = "screenshot" }
    IN  (last.route = "capture" /\ cap.outcome # "none")
            => /\ (~primaryImage /\ cap.pyautogui /\ cap.shot = "ok")
                    => /\ last.code = 200
                       /\ cap.outcome = "image"
                       /\ cap.image # None
                       /\ cap.image.via = "screenshot"
                       /\ cap.image.rect = Region(cap.selection)
                       /\ state.captured_image = cap.image
               /\ cap.fallbackTried => ~primaryImage
               /\ grabs \subseteq { Len(cap.calls) }
               /\ cap.fallbackTried <=> grabs # {}
               /\ primaryImage => cap.image = cap.primary.result

\* A capture succeeded through the region grab after the primary path had
\* obtained the window DC and then raised.
C7_Witness ==
    /\ last.route = "capture" /\ last.code = 200
    /\ last.cap.primaryTried /\ last.cap.primary.raised
    /\ last.cap.fallbackTried
    /\ last.cap.image.via = "screenshot"
    /\ state.captured_image = last.cap.image

\* C8  Flag-downgrade retry: a capture whose PrintWindow call returned made
\* one PrintWindow call when that call reported success and exactly two when
\* it reported failure.
C8_OneRetryAfterFailure ==
    (last.route = "capture" /\ last.cap.primary.prints # << >>)
        => PrintWindowCalls(last.cap.primary)
             = (IF last.cap.primary.prints[1] = 1 THEN 1 ELSE 2)

\* The calls of the primary path that create a device context or a bitmap.
AcquisitionCalls ==
    { "CreateDCFromHandle", "CreateCompatibleDC", "CreateBitmap", "CreateCompatibleBitmap" }

\* C9  A resource-acquisition failure inside the primary capture path ends
\* the capture with an error; the region grab is not attempted and no
\* capture is reported.
C9_AcquisitionFailureIsReported ==
    (last.route = "capture" /\ last.cap.primary.raisedAt \in AcquisitionCalls)
        => last.code # 200 /\ ~last.cap.fallbackTried

\* C10  WindowUnavailable: when the live bounds query fails or the window
\* reports a non-positive width or height, the capture fails; nothing is
\* grabbed from the listed rectangle and no capture is stored.
C10_UnavailableWindowFails ==
    (/\ last.route = "capture"
     /\ last.cap.listed # None
     /\ \/ last.cap.refreshed /\ ~PositiveSize(last.cap.refreshAnswer)
        \/ last.cap.listed.width <= 0
        \/ last.cap.listed.height <= 0)
        => last.code # 200 /\ ~last.cap.fallbackTried

\* A rectangle (left, top, right, bottom) as a region (left, top, width,
\* height).
RectRegion(rect) ==
    [left |-> rect.left, top |-> rect.top,
     width |-> Max(0, rect.right - rect.left), height |-> Max(0, rect.bottom - rect.top)]

\* C11  Live bounds: whenever a capture that queried the window's rectangle
\* and got an answer goes on to the region grab, the region it grabs is the
\* rectangle the OS answered during this capture, not the one recorded when
\* the windows were listed.
C11_FallbackUsesLiveBounds ==
    (/\ last.route = "capture"
     /\ last.cap.fallbackTried
     /\ last.cap.refreshed
     /\ last.cap.refreshAnswer # Raises)
        => Region(last.cap.selection) = RectRegion(last.cap.refreshAnswer)

\* Why a capture found no image on the primary path: "resource" when
\* GetWindowDC or a device-context or bitmap creation failed, "invisible"
\* when the window's rectangle could not be read or was empty, "nobackend"
\* when there was no native path and no pyautogui.
FailureKind(cap) ==
    IF cap.primary.raisedAt \in AcquisitionCalls
         \/ cap.primary.calls = << "GetWindowRect", "GetWindowDC" >>
    THEN "resource"
    ELSE IF cap.primary.calls = << "GetWindowRect" >> THEN "invisible"
    ELSE IF cap.primary.calls = << >> /\ ~cap.pyautogui THEN "nobackend"
    ELSE "other"

\* C12  When the primary path and the region grab both fail, or there is no
\* backend, the capture is answered with an error and never reported ready,
\* and the error tells the three kinds of failure apart: no capture failing
\* for another of the three reasons is answered with the same error.
C12_FailuresAreDistinguished ==
    (last.route = "capture" /\ last.cap.outcome = "raise")
        => /\ last.code # 200
           /\ \A e \in CaptureEnvs :
                LET other == ApiCaptureHandler(InitialState, "w", e, 1).resp
                IN  (/\ other.cap.outcome = "raise"
                     /\ FailureKind(last.cap) # "other"
                     /\ FailureKind(other.cap) # "other"
                     /\ FailureKind(other.cap) # FailureKind(last.cap))
                        => other.error # last.error

\* C13  A new capture never races with the use of the previous image:
\* whatever the interleaving of the requests handled at the same time, once
\* they have all been answered state.crop_box is None or a rectangle within
\* the bounds of the image state.captured_image then holds.
C13_NoRaceOnCropBox ==
    (\A w \in Workers : requests[w].route = "idle")
        => \/ state.crop_box = None
           \/ state.captured_image # None /\ BoxWithin(state.crop_box, state.captured_image)

\* C14  A capture that succeeds resets the crop selector, whatever state it
\* was in: after the step that handles the answer cropBox and firstCropPoint
\* are null, isSelectingCrop is false, activePointerId is null and the
\* overlay is hidden.
C14_CaptureResetsSelector ==
    [][captures' = captures + 1
         => /\ cropBox' = None
            /\ firstCropPoint' = None
            /\ ~isSelectingCrop'
            /\ activePointerId' = 0
            /\ overlay' = None]_vars

\* A capture answered while the first corner of a new selection was set over
\* a box committed earlier, and the selector idle since.
C14_Witness ==
    /\ last.route = "capture"
    /\ last.code = 200
    /\ last.page # None
    /\ last.page.phase = "Dragging"
    /\ last.page.cropBox # None
    /\ Phase = "Idle"
    /\ overlay = None

\* A step in which the pointer that set the first corner stops being
\* tracked while the selection is under way.
ActivePointerReleased ==
    /\ isSelectingCrop
    /\ firstCropPoint # None
    /\ activePointerId # 0
    /\ activePointerId' = 0

PointerStep ==
    \/ PointerDownOn(SelectorEvents)
    \/ PointerMoveOn(SelectorEvents)
    \/ PointerUpOn(SelectorEvents)

\* C16  Single-shot commit: a step that stores a crop box is taken in
\* selection mode and leaves it, with no first corner and no tracked
\* pointer left; and outside selection mode no step that changes the
\* selector is a pointer event, so the stored box stays until selection is
\* started again.
C16_SingleShotCommit ==
    [][/\ (cropBox' # None /\ cropBox' # cropBox)
            => /\ isSelectingCrop
               /\ ~isSelectingCrop'
               /\ firstCropPoint' = None
               /\ activePointerId' = 0
       /\ (~isSelectingCrop /\ selector' # selector) => ~PointerStep]_vars

\* A box was committed and the preview, still displayed, can receive further
\* pointer events.
C16_Witness ==
    /\ Phase = "Committed"
    /\ overlay = cropBox.display
    /\ SelectorEvents # {}
    /\ firstCropPoint = None
    /\ activePointerId = 0

\* The point is a corner of the box.
CornerOf(point, box) ==
    /\ point.x \in {box.x, box.x + box.width}
    /\ point.y \in {box.y, box.y + box.height}

\* C17  Pointer-moves update the overlay and never the first corner: no
\* step that changes firstCropPoint, cropBox, selection mode or the tracked
\* pointer is a pointer-move; once set, the first corner keeps the point
\* recorded at pointer-down for as long as it is set; and the box a commit
\* stores has that point as a corner.
C17_MovesKeepAnchor ==
    [][/\ ~UNCHANGED << firstCropPoint, cropBox, isSelectingCrop, activePointerId >>
            => ~PointerMoveOn(SelectorEvents)
       /\ (firstCropPoint # None /\ firstCropPoint' # None) => firstCropPoint' = firstCropPoint
       /\ (firstCropPoint # None /\ cropBox' # None /\ cropBox' # cropBox)
            => CornerOf(firstCropPoint, cropBox'.display)]_vars

\* The pointer was dragged away from the first corner: the overlay spans
\* from the corner recorded at pointer-down to where the pointer is.
C17_Witness ==
    /\ Phase = "Dragging"
    /\ pointerMoved
    /\ overlay.width > 2
    /\ CornerOf(firstCropPoint, overlay)

\* C18  Starting a selection while the preview holds no captured image
\* (before any capture, or after clearAfterResult emptied it) does nothing:
\* selection mode is never on while #captureImage has no source.
C18_NoSelectionWithoutCapture ==
    isSelectingCrop => imgSrc # ""

\* An OCR request of the page, sent while the selector was idle, that the
\* server took as far as the crop (it held a capture and pytesseract).
IdleOcrHandled ==
    /\ last.route = "ocr"
    /\ last.page # None
    /\ last.page.phase = "Idle"
    /\ last.code # 400

\* C19  Clearing from Committed removes the crop box and leaves the selector
\* idle; the OCR request the idle page sends next carries no crop, OCR is run
\* on the whole captured image and state.crop_box is None afterwards.
C19_ClearedCropIsNotSent ==
    /\ [][(Phase = "Committed" /\ cropBox' = None /\ captures' = captures)
            => /\ ~isSelectingCrop'
               /\ firstCropPoint' = None
               /\ overlay' = None]_vars
    /\ [](IdleOcrHandled
            => /\ last.crop.tag = "None"
               /\ last.cropOut = None
               /\ last.ocrInput = state.captured_image
               /\ state.crop_box = None)

\* The server still held the crop of the box committed earlier when the OCR
\* request of the cleared, idle page arrived, and OCR succeeded.
C19_Witness ==
    /\ IdleOcrHandled
    /\ last.code = 200
    /\ last.hadCrop
    /\ Phase = "Idle"

\* C20  Abandoning a selection (leaving selection mode without committing
\* and without a new capture) returns to the state that preceded arming and
\* never changes a crop box committed earlier.
C20_AbandonKeepsCommittedBox ==
    [][(/\ isSelectingCrop
        /\ ~isSelectingCrop'
        /\ cropBox' = None
        /\ UNCHANGED << server, preview >>)
          => cropBox = None]_vars

\* C21  The overlay is drawn exactly when the selector is Dragging or
\* Committed: in Idle and in ArmedForSelection it is hidden, also when
\* selection is armed again after a commit.
C21_OverlayFollowsPhase ==
    (overlay # None) <=> (Phase \in {"Dragging", "Committed"})

\* The image point a displayed point denotes while the preview is displayed
\* in `rect`: the conversion commitCrop applies (lines 1415-1416).
ImagePoint(p, rect) ==
    [x |-> RoundHalfUp(p.x * naturalWidth, rect.width),
     y |-> RoundHalfUp(p.y * naturalHeight, rect.height)]

\* C22  No transform drift: the first corner denotes the same image point
\* at the commit as at pointer-down, also when the preview was resized in
\* between.  Where the first corner is the left (top) edge of the committed
\* box, the box starts at the image point that was under the pointer at
\* pointer-down; the preview shows the same image as then.
C22_AnchorDoesNotDrift ==
    [][(/\ firstCropPoint # None
        /\ cropBox' # None
        /\ cropBox' # cropBox
        /\ anchorRect \in { DisplayRect(shown, z) : z \in Zooms })
          => /\ cropBox'.display.x = firstCropPoint.x
                  => cropBox'.x = ImagePoint(firstCropPoint, anchorRect).x
             /\ cropBox'.display.y = firstCropPoint.y
                  => cropBox'.y = ImagePoint(firstCropPoint, anchorRect).y]_vars

\* C23  Cropping never mutates the original: no /api/ocr request changes
\* state.captured_image, with or without a crop, answered or refused; and
\* a request without a crop that reaches OCR hands it the stored captured
\* image itself.
C23_OcrKeepsCapturedImage ==
    /\ [][last'.route = "ocr" => state'.captured_image = state.captured_image]_vars
    /\ []((last.route = "ocr" /\ last.crop.tag = "None" /\ last.ocrInput # None)
            => last.ocrInput = state.captured_image)

\* OCR ran on a crop smaller than the capture, which the session still
\* holds whole.
C23_Witness ==
    /\ last.route = "ocr"
    /\ last.code = 200
    /\ last.cropOut # None
    /\ last.ocrInput.tag = "Cropped"
    /\ last.ocrInput.w < state.captured_image.w
    /\ last.ocrInput.of = state.captured_image

\* The rectangle (x, y, x + width, y + height) of a committed crop.
CropRect(crop) == Box(crop.x, crop.y, crop.x + crop.width, crop.y + crop.height)

\* An OCR request of the page that carried its committed crop, the crop
\* lying within the captured image, and that got as far as running OCR.
CommittedCropHandled ==
    /\ last.route = "ocr"
    /\ last.page # None
    /\ last.page.cropBox # None
    /\ last.ocrInput # None
    /\ 0 <= last.page.cropBox.x
    /\ 0 <= last.page.cropBox.y
    /\ last.page.cropBox.x + last.page.cropBox.width <= state.captured_image.w
    /\ last.page.cropBox.y + last.page.cropBox.height <= state.captured_image.h

\* C24  Exact slice at original resolution: the bitmap handed to OCR for a
\* committed crop (x, y, width, height) within the image is exactly the
\* rectangle (x, y, x + width, y + height) of the stored captured image, of
\* size width x height, at least 1 x 1; the crop box stored and the one
\* reported are that rectangle.
C24_ExactSlice ==
    CommittedCropHandled
        => /\ last.ocrInput = CropImage(state.captured_image, CropRect(last.page.cropBox))
           /\ last.ocrInput.w = last.page.cropBox.width
           /\ last.ocrInput.h = last.page.cropBox.height
           /\ last.ocrInput.w >= 1
           /\ last.ocrInput.h >= 1
           /\ state.crop_box = CropRect(last.page.cropBox)
           /\ last.code = 200 => last.cropOut = CropRect(last.page.cropBox)

\* OCR succeeded on a crop committed on a preview displayed smaller than the
\* image: the box in displayed pixels differs from the box in image pixels.
C24_Witness ==
    /\ CommittedCropHandled
    /\ last.code = 200
    /\ last.page.cropBox.display.width < last.page.cropBox.width

\* C25  Crop idempotence: an /api/ocr request that repeats the one answered
\* just before (same crop, same captured image, nothing in between) hands
\* OCR the same image, leaves the session as the first request left it,
\* normalized crop rectangle included, and is answered the same.
C25_CropIsIdempotent ==
    [][(last'.route = "ocr" /\ last'.asked.again)
         => /\ state' = state
            /\ last'.ocrInput = last.ocrInput
            /\ last'.cropOut = last.cropOut
            /\ last'.code = last.code]_vars

\* The same crop was applied twice and OCR ran on it both times.
C25_Witness ==
    /\ last.route = "ocr"
    /\ last.asked.again
    /\ last.code = 200
    /\ last.cropOut # None
    /\ last.hadCrop
    /\ last.ocrInput = CropImage(state.captured_image, state.crop_box)

\* The image coordinate `img`, mapped back to the preview by size / natural,
\* is within one displayed pixel of the displayed coordinate `shownAt`.
BackWithinOne(img, shownAt, size, natural) ==
    Abs(img * size - shownAt * natural) <= natural

ScenarioRect == [left |-> 0, top |-> 150, width |-> 500, height |-> 400]

\* The displayed point of a viewport point in the scenario.
ScenarioPoint(clientX, clientY) ==
    PointFromEvent(ClientEvent(1, clientX, clientY, ScenarioRect),
                   [width |-> ScenarioRect.width, height |-> ScenarioRect.height])

\* C27  End-to-end scenario 2: with a 1000 x 800 image previewed at scale 0.5
\* in a 500 x 500 viewport, a drag from viewport point (100,150) to viewport
\* point (300,350) commits the crop box (200,0,600,400) of the image.
C27_ScenarioTwo ==
    [][(/\ naturalWidth = 1000
        /\ naturalHeight = 800
        /\ firstCropPoint = [x |-> ScenarioPoint(100, 150).x, y |-> ScenarioPoint(100, 150).y]
        /\ anchorRect = ScenarioPoint(100, 150).rect
        /\ pointerMoved
        /\ activePointerId = 1
        /\ PointerUpOn({ClientEvent(1, 300, 350, ScenarioRect)}))
          => OcrPayload(cropBox') = CropLTRB(200, 0, 600, 400, TRUE)]_vars

\* The scenario's drag was committed.
C27_Witness ==
    /\ naturalWidth = 1000
    /\ naturalHeight = 800
    /\ commitRect = [width |-> 500, height |-> 400]
    /\ cropBox # None
    /\ cropBox.display = [x |-> 100, y |-> 0, width |-> 200, height |-> 200]
    /\ cropBox.x = 200

\* C28  Browser-safe port: whatever port is asked for and whichever ports
\* are free, the port _choose_bind answers for the server to listen on is
\* one _is_unsafe_browser_port does not reject.
C28_ChosenPortIsSafe ==
    (bind.chosen # None /\ bind.chosen # Raises) => ~IsUnsafeBrowserPort(bind.chosen.port)

\* The step commits the box whose opposite corners are the first corner and
\* `point`, min/max-normalized, and leaves selection mode.
CommitsSpanTo(point) ==
    /\ cropBox' # None
    /\ ~isSelectingCrop'
    /\ firstCropPoint' = None
    /\ cropBox'.display.width >= 0
    /\ cropBox'.display.height >= 0
    /\ CornerOf(firstCropPoint, cropBox'.display)
    /\ CornerOf(point, cropBox'.display)

\* The step commits nothing and stays in selection mode.
CommitsNothing ==
    /\ cropBox' = cropBox
    /\ isSelectingCrop'

\* C29  Two-tap and drag selection: a pointer-down in selection mode with no
\* first corner records the corner and commits nothing; the release of that
\* pointer without a movement beyond 2 px keeps the corner and commits
\* nothing, and the next pointer-down commits the box spanned by the corner
\* and its point; the release after a movement beyond 2 px commits the box
\* spanned by the corner and the release point.  pointerMoved is set by a
\* movement beyond 2 px and by nothing else; a box is committed only in
\* selection mode with a first corner, and the commit leaves selection mode,
\* so each selection commits once.
C29_TwoTapAndDrag ==
    /\ []((isSelectingCrop /\ firstCropPoint # None /\ (overlay.width > 2 \/ overlay.height > 2))
            => pointerMoved)
    /\ [][/\ cropBox' # cropBox
               => (isSelectingCrop /\ firstCropPoint # None /\ ~isSelectingCrop')
          /\ (pointerMoved' /\ ~pointerMoved)
               => (overlay'.width > 2 \/ overlay'.height > 2)
          /\ isSelectingCrop
               => \A ev \in TapEvents :
                    LET point == PointFromEvent(ev, ev.rect)
                    IN  /\ PointerDownOn({ev})
                            => IF firstCropPoint = None
                               THEN /\ CommitsNothing
                                    /\ firstCropPoint' = [x |-> point.x, y |-> point.y]
                               ELSE CommitsSpanTo(point)
                        /\ (firstCropPoint # None /\ ev.pointerId = activePointerId /\ PointerUpOn({ev}))
                            => IF pointerMoved
                               THEN CommitsSpanTo(point)
                               ELSE CommitsNothing /\ firstCropPoint' = firstCropPoint]_vars

\* A tap ended: its pointer wandered one pixel from the first corner, which
\* is within the 2 px allowance, and was released; the corner is kept and no
\* box is committed.
C29_Witness ==
    /\ isSelectingCrop
    /\ firstCropPoint # None
    /\ activePointerId = 0
    /\ ~pointerMoved
    /\ overlay.width = 1
    /\ cropBox = None

\* The three fields of the session are in `after` as in `before`.
KeepsSession(before, after) ==
    /\ after.selected_window = before.selected_window
    /\ after.captured_image = before.captured_image
    /\ after.crop_box = before.crop_box

\* C30  A failed capture leaves the session unchanged: whenever /api/capture
\* answers with an error (Pillow missing, no title, window not found, the
\* capture raised or returned no image), state.selected_window,
\* state.captured_image and state.crop_box are as they were before the
\* request.  The screenshot calls of the model return an image or raise, so
\* the answer to a capture that returned no image (lines 702-703) is applied
\* to every state the session reaches.
C30_FailedCaptureKeepsSession ==
    /\ [][(last'.route = "capture" /\ last'.code # 200) => KeepsSession(state, state')]_vars
    /\ [](/\ CaptureAnswer(state, NoCapture).resp.code = 500
          /\ KeepsSession(state, CaptureAnswer(state, NoCapture).state))

\* A capture failed with status 500 while the session held a window, its
\* image and a crop box, and holds them still.
C30_Witness ==
    /\ last.route = "capture"
    /\ last.code = 500
    /\ state.selected_window # None
    /\ state.captured_image # None
    /\ state.crop_box # None

\* C31  A rejected OCR request leaves the session unchanged: whenever
\* /api/ocr answers 400 (no capture taken, pytesseract missing, or a crop
\* payload _parse_crop_request rejects), state.captured_image and
\* state.crop_box are what they were before the request.
C31_RejectedOcrKeepsSession ==
    [][(last'.route = "ocr" /\ last'.code = 400)
         => /\ state'.captured_image = state.captured_image
            /\ state'.crop_box = state.crop_box]_vars

\* A crop payload was rejected while the session held a capture and the crop
\* box of an earlier request, and holds them still.
C31_Witness ==
    /\ last.route = "ocr"
    /\ last.code = 400
    /\ last.error \notin {"Take a capture first.", "pytesseract is not installed."}
    /\ state.captured_image # None
    /\ state.crop_box # None

\* C32  Client crop box stays inside the image: the cropBox commitCrop
\* stores, its x, y, width and height each rounded on its own, satisfies
\* 0 <= x, 0 <= y, x + width <= naturalWidth and y + height <= naturalHeight.
C32_ClientCropInsideImage ==
    cropBox # None
        => /\ 0 <= cropBox.x
           /\ 0 <= cropBox.y
           /\ cropBox.x + cropBox.width <= naturalWidth
           /\ cropBox.y + cropBox.height <= naturalHeight

\* C33  Pointer events outside selection mode change nothing: while
\* isSelectingCrop is false, no step that changes cropBox, firstCropPoint,
\* activePointerId or the overlay is a pointer-down, a pointer-move or a
\* pointer-up on the preview.
C33_PointerIgnoredOutsideSelection ==
    [][(~isSelectingCrop /\ ~UNCHANGED << cropBox, firstCropPoint, activePointerId, overlay >>)
         => /\ ~PointerDownOn(SelectorEvents)
            /\ ~PointerMoveOn(SelectorEvents)
            /\ ~PointerUpOn(SelectorEvents)]_vars

\* The preview of a capture is displayed and can receive pointer events, and
\* 'Select crop area' was never pressed: no corner, no box, no overlay.
C33_Witness ==
    /\ ~isSelectingCrop
    /\ SelectorEvents # {}
    /\ selections = 0
    /\ cropBox = None
    /\ firstCropPoint = None
    /\ activePointerId = 0
    /\ overlay = None

\* The page holds nothing of the session: no queued item, no OCR result, no
\* crop, and the crop selector is idle.
PageCleared ==
    /\ queueItems = << >>
    /\ lastOcrText = ""
    /\ lastOcrImage = None
    /\ cropBox = None
    /\ Phase = "Idle"

\* C34  After a successful AI response the whole session is cleared: a
\* sendAiRequest whose request succeeds leaves the page with an empty queue,
\* no last OCR result, no crop box and an idle selector; when its
\* clear_capture request is answered the server holds neither a captured
\* image nor a crop box, and an /api/ocr request that follows without a new
\* capture is refused with "Take a capture first.".
C34_AiResponseClearsSession ==
    /\ [][(ApiAiResponseHandler(state, queueItems, [ai |-> "ok"]).resp.code = 200
             /\ SendAiRequestOn({[ai |-> "ok"]}))
           => /\ PageCleared'
              /\ last'.route = "clear_capture"
                   => (last'.code = 200 /\ state'.captured_image = None /\ state'.crop_box = None)]_vars
    /\ [][(state.captured_image = None /\ last'.route = "ocr")
           => (last'.code = 400 /\ last'.error = "Take a capture first.")]_vars

\* The page was cleared after an AI response and its clear_capture request
\* was answered; the OCR request sent next was refused for want of a capture.
C34_Witness ==
    /\ PageCleared
    /\ last.route = "ocr"
    /\ last.code = 400
    /\ last.error = "Take a capture first."
    /\ last.page # None
    /\ captures > 0
    /\ state.captured_image = None

\* C35  Queue bound: queueItems never holds more than 10 items; the queue
\* grows only by one item, the latest OCR result, when there is OCR text and
\* fewer than 10 items are queued, so addToQueue on a full queue or without
\* OCR text leaves it as it is; and no request sendAiRequest builds from the
\* queue is refused by /api/ai_response for exceeding its 10-item limit.
C35_QueueBound ==
    /\ [](Len(queueItems) <= 10)
    /\ [](last.route = "ai_response" => last.error # "Queue limit is 10 items per request.")
    /\ [][queueItems' # queueItems
            => \/ queueItems' = << >>
               \/ /\ lastOcrText # ""
                  /\ Len(queueItems) < 10
                  /\ queueItems' = Append(queueItems, [text |-> lastOcrText, image |-> lastOcrImage])]_vars

\* The queue is full and the request built from it reached the provider
\* check of /api/ai_response, which answered that no client is configured.
C35_Witness ==
    /\ Len(queueItems) = 10
    /\ last.route = "ai_response"
    /\ last.code = 400
    /\ last.error = "no client"

\* The entries of `entries` under a title other than `title`, in order.
OtherEntries(entries, title) == SelectSeq(entries, LAMBDA entry : entry.title # title)

\* C36  Prompt store round trip: after a prompt was saved under a non-empty
\* title, the list _load_prompt_entries returns holds exactly one entry with
\* that title, its prompt is the text that was saved, and the entries under
\* other titles are the ones stored before.
C36_PromptRoundTrip ==
    (last.route = "configs" /\ last.code = 200)
        => /\ Cardinality({ i \in DOMAIN LoadPromptEntries(configFile) :
                              LoadPromptEntries(configFile)[i].title = last.asked.title }) = 1
           /\ \A i \in DOMAIN LoadPromptEntries(configFile) :
                LoadPromptEntries(configFile)[i].title = last.asked.title
                    => LoadPromptEntries(configFile)[i].prompt = last.asked.prompt
           /\ OtherEntries(LoadPromptEntries(configFile), last.asked.title)
                = OtherEntries(last.asked.before, last.asked.title)

\* C37  Port probing stays in range and terminates: for a requested port in
\* 1..65535, _choose_bind hands only ports of 1..65535 to
\* _is_port_available, at most 51 of them, and returns a port and a warning,
\* the warning given exactly when the port differs from the requested one.
C37_ProbingStaysInRange ==
    (bind.chosen # None /\ bind.requested \in 1..65535)
        => /\ \A i \in DOMAIN ProbedPorts(bind.requested, bind.free) :
                ProbedPorts(bind.requested, bind.free)[i] \in 1..65535
           /\ Len(ProbedPorts(bind.requested, bind.free)) <= 51
           /\ bind.chosen # Raises
           /\ bind.chosen.warned <=> (bind.chosen.port # bind.requested)

=============================================================================
